---- MODULE Spec2Model ----
(***************************************************************************)
(* A model of domain-lookup: the RDAP client and its lazily loaded          *)
(* bootstrap map (rdap.go), the WHOIS client and its text classifier        *)
(* (whois.go), the RDAP -> WHOIS fallback of Checker.Check (checker.go)     *)
(* and the bounded concurrent batch of queryAll (main.go).                  *)
(*                                                                         *)
(* Go strings that the code inspects character by character are sequences  *)
(* of characters, one string each; "" is <<>>.  A nil *time.Time is <<>>.   *)
(***************************************************************************)
EXTENDS Integers, Sequences, FiniteSets, TLC

(***************************************************************************)
(* strings: ToLower, TrimSpace, Split, Join, Contains, HasPrefix, ...       *)
(***************************************************************************)
Digits == <<"0","1","2","3","4","5","6","7","8","9">>

\* A character is a one-character string where TLA+ can write one (the ASCII
\* characters from the space to the tilde but the grave accent, "\t", "\n",
\* "\f", "\r"); any other rune is the string "U+" and its code point in
\* hexadecimal: "U+000B" is the vertical tab, "U+212A" the Kelvin sign.
\* the runes below utf8.RuneSelf that are written by their code point: the
\* control characters but "\t", "\n", "\f", "\r", and the grave accent
AsciiByCode ==
    { "U+0000", "U+0001", "U+0002", "U+0003", "U+0004", "U+0005", "U+0006",
      "U+0007", "U+0008", "U+000B", "U+000E", "U+000F", "U+0010", "U+0011",
      "U+0012", "U+0013", "U+0014", "U+0015", "U+0016", "U+0017", "U+0018",
      "U+0019", "U+001A", "U+001B", "U+001C", "U+001D", "U+001E", "U+001F",
      "U+0060", "U+007F" }

\* the rune is below utf8.RuneSelf
IsAscii(c) == Len(c) = 1 \/ c \in AsciiByCode

\* unicode.ToLower on the ASCII letters
AsciiLower ==
    [c \in {"A","B","C","D","E","F","G","H","I","J","K","L","M",
            "N","O","P","Q","R","S","T","U","V","W","X","Y","Z"} |->
        CASE c = "A" -> "a" [] c = "B" -> "b" [] c = "C" -> "c" [] c = "D" -> "d"
          [] c = "E" -> "e" [] c = "F" -> "f" [] c = "G" -> "g" [] c = "H" -> "h"
          [] c = "I" -> "i" [] c = "J" -> "j" [] c = "K" -> "k" [] c = "L" -> "l"
          [] c = "M" -> "m" [] c = "N" -> "n" [] c = "O" -> "o" [] c = "P" -> "p"
          [] c = "Q" -> "q" [] c = "R" -> "r" [] c = "S" -> "s" [] c = "T" -> "t"
          [] c = "U" -> "u" [] c = "V" -> "v" [] c = "W" -> "w" [] c = "X" -> "x"
          [] c = "Y" -> "y" [] c = "Z" -> "z"]

\* unicode.ToLower on the other runes it changes: <<rune, its image>>, in the
\* order of the code points (Unicode 14)
CasePairs ==
    {
      <<"U+00C0", "U+00E0">>, <<"U+00C1", "U+00E1">>, <<"U+00C2", "U+00E2">>,
      <<"U+00C3", "U+00E3">>, <<"U+00C4", "U+00E4">>, <<"U+00C5", "U+00E5">>,
      <<"U+00C6", "U+00E6">>, <<"U+00C7", "U+00E7">>, <<"U+00C8", "U+00E8">>,
      <<"U+00C9", "U+00E9">>, <<"U+00CA", "U+00EA">>, <<"U+00CB", "U+00EB">>,
      <<"U+00CC", "U+00EC">>, <<"U+00CD", "U+00ED">>, <<"U+00CE", "U+00EE">>,
      <<"U+00CF", "U+00EF">>, <<"U+00D0", "U+00F0">>, <<"U+00D1", "U+00F1">>,
      <<"U+00D2", "U+00F2">>, <<"U+00D3", "U+00F3">>, <<"U+00D4", "U+00F4">>,
      <<"U+00D5", "U+00F5">>, <<"U+00D6", "U+00F6">>, <<"U+00D8", "U+00F8">>,
      <<"U+00D9", "U+00F9">>, <<"U+00DA", "U+00FA">>, <<"U+00DB", "U+00FB">>,
      <<"U+00DC", "U+00FC">>, <<"U+00DD", "U+00FD">>, <<"U+00DE", "U+00FE">>,
      <<"U+0100", "U+0101">>, <<"U+0102", "U+0103">>, <<"U+0104", "U+0105">>,
      <<"U+0106", "U+0107">>, <<"U+0108", "U+0109">>, <<"U+010A", "U+010B">>,
      <<"U+010C", "U+010D">>, <<"U+010E", "U+010F">>, <<"U+0110", "U+0111">>,
      <<"U+0112", "U+0113">>, <<"U+0114", "U+0115">>, <<"U+0116", "U+0117">>,
      <<"U+0118", "U+0119">>, <<"U+011A", "U+011B">>, <<"U+011C", "U+011D">>,
      <<"U+011E", "U+011F">>, <<"U+0120", "U+0121">>, <<"U+0122", "U+0123">>,
      <<"U+0124", "U+0125">>, <<"U+0126", "U+0127">>, <<"U+0128", "U+0129">>,
      <<"U+012A", "U+012B">>, <<"U+012C", "U+012D">>, <<"U+012E", "U+012F">>,
      <<"U+0130", "i">>, <<"U+0132", "U+0133">>, <<"U+0134", "U+0135">>,
      <<"U+0136", "U+0137">>, <<"U+0139", "U+013A">>, <<"U+013B", "U+013C">>,
      <<"U+013D", "U+013E">>, <<"U+013F", "U+0140">>, <<"U+0141", "U+0142">>,
      <<"U+0143", "U+0144">>, <<"U+0145", "U+0146">>, <<"U+0147", "U+0148">>,
      <<"U+014A", "U+014B">>, <<"U+014C", "U+014D">>, <<"U+014E", "U+014F">>,
      <<"U+0150", "U+0151">>, <<"U+0152", "U+0153">>, <<"U+0154", "U+0155">>,
      <<"U+0156", "U+0157">>, <<"U+0158", "U+0159">>, <<"U+015A", "U+015B">>,
      <<"U+015C", "U+015D">>, <<"U+015E", "U+015F">>, <<"U+0160", "U+0161">>,
      <<"U+0162", "U+0163">>, <<"U+0164", "U+0165">>, <<"U+0166", "U+0167">>,
      <<"U+0168", "U+0169">>, <<"U+016A", "U+016B">>, <<"U+016C", "U+016D">>,
      <<"U+016E", "U+016F">>, <<"U+0170", "U+0171">>, <<"U+0172", "U+0173">>,
      <<"U+0174", "U+0175">>, <<"U+0176", "U+0177">>, <<"U+0178", "U+00FF">>,
      <<"U+0179", "U+017A">>, <<"U+017B", "U+017C">>, <<"U+017D", "U+017E">>,
      <<"U+0181", "U+0253">>, <<"U+0182", "U+0183">>, <<"U+0184", "U+0185">>,
      <<"U+0186", "U+0254">>, <<"U+0187", "U+0188">>, <<"U+0189", "U+0256">>,
      <<"U+018A", "U+0257">>, <<"U+018B", "U+018C">>, <<"U+018E", "U+01DD">>,
      <<"U+018F", "U+0259">>, <<"U+0190", "U+025B">>, <<"U+0191", "U+0192">>,
      <<"U+0193", "U+0260">>, <<"U+0194", "U+0263">>, <<"U+0196", "U+0269">>,
      <<"U+0197", "U+0268">>, <<"U+0198", "U+0199">>, <<"U+019C", "U+026F">>,
      <<"U+019D", "U+0272">>, <<"U+019F", "U+0275">>, <<"U+01A0", "U+01A1">>,
      <<"U+01A2", "U+01A3">>, <<"U+01A4", "U+01A5">>, <<"U+01A6", "U+0280">>,
      <<"U+01A7", "U+01A8">>, <<"U+01A9", "U+0283">>, <<"U+01AC", "U+01AD">>,
      <<"U+01AE", "U+0288">>, <<"U+01AF", "U+01B0">>, <<"U+01B1", "U+028A">>,
      <<"U+01B2", "U+028B">>, <<"U+01B3", "U+01B4">>, <<"U+01B5", "U+01B6">>,
      <<"U+01B7", "U+0292">>, <<"U+01B8", "U+01B9">>, <<"U+01BC", "U+01BD">>,
      <<"U+01C4", "U+01C6">>, <<"U+01C5", "U+01C6">>, <<"U+01C7", "U+01C9">>,
      <<"U+01C8", "U+01C9">>, <<"U+01CA", "U+01CC">>, <<"U+01CB", "U+01CC">>,
      <<"U+01CD", "U+01CE">>, <<"U+01CF", "U+01D0">>, <<"U+01D1", "U+01D2">>,
      <<"U+01D3", "U+01D4">>, <<"U+01D5", "U+01D6">>, <<"U+01D7", "U+01D8">>,
      <<"U+01D9", "U+01DA">>, <<"U+01DB", "U+01DC">>, <<"U+01DE", "U+01DF">>,
      <<"U+01E0", "U+01E1">>, <<"U+01E2", "U+01E3">>, <<"U+01E4", "U+01E5">>,
      <<"U+01E6", "U+01E7">>, <<"U+01E8", "U+01E9">>, <<"U+01EA", "U+01EB">>,
      <<"U+01EC", "U+01ED">>, <<"U+01EE", "U+01EF">>, <<"U+01F1", "U+01F3">>,
      <<"U+01F2", "U+01F3">>, <<"U+01F4", "U+01F5">>, <<"U+01F6", "U+0195">>,
      <<"U+01F7", "U+01BF">>, <<"U+01F8", "U+01F9">>, <<"U+01FA", "U+01FB">>,
      <<"U+01FC", "U+01FD">>, <<"U+01FE", "U+01FF">>, <<"U+0200", "U+0201">>,
      <<"U+0202", "U+0203">>, <<"U+0204", "U+0205">>, <<"U+0206", "U+0207">>,
      <<"U+0208", "U+0209">>, <<"U+020A", "U+020B">>, <<"U+020C", "U+020D">>,
      <<"U+020E", "U+020F">>, <<"U+0210", "U+0211">>, <<"U+0212", "U+0213">>,
      <<"U+0214", "U+0215">>, <<"U+0216", "U+0217">>, <<"U+0218", "U+0219">>,
      <<"U+021A", "U+021B">>, <<"U+021C", "U+021D">>, <<"U+021E", "U+021F">>,
      <<"U+0220", "U+019E">>, <<"U+0222", "U+0223">>, <<"U+0224", "U+0225">>,
      <<"U+0226", "U+0227">>, <<"U+0228", "U+0229">>, <<"U+022A", "U+022B">>,
      <<"U+022C", "U+022D">>, <<"U+022E", "U+022F">>, <<"U+0230", "U+0231">>,
      <<"U+0232", "U+0233">>, <<"U+023A", "U+2C65">>, <<"U+023B", "U+023C">>,
      <<"U+023D", "U+019A">>, <<"U+023E", "U+2C66">>, <<"U+0241", "U+0242">>,
      <<"U+0243", "U+0180">>, <<"U+0244", "U+0289">>, <<"U+0245", "U+028C">>,
      <<"U+0246", "U+0247">>, <<"U+0248", "U+0249">>, <<"U+024A", "U+024B">>,
      <<"U+024C", "U+024D">>, <<"U+024E", "U+024F">>, <<"U+0370", "U+0371">>,
      <<"U+0372", "U+0373">>, <<"U+0376", "U+0377">>, <<"U+037F", "U+03F3">>,
      <<"U+0386", "U+03AC">>, <<"U+0388", "U+03AD">>, <<"U+0389", "U+03AE">>,
      <<"U+038A", "U+03AF">>, <<"U+038C", "U+03CC">>, <<"U+038E", "U+03CD">>,
      <<"U+038F", "U+03CE">>, <<"U+0391", "U+03B1">>, <<"U+0392", "U+03B2">>,
      <<"U+0393", "U+03B3">>, <<"U+0394", "U+03B4">>, <<"U+0395", "U+03B5">>,
      <<"U+0396", "U+03B6">>, <<"U+0397", "U+03B7">>, <<"U+0398", "U+03B8">>,
      <<"U+0399", "U+03B9">>, <<"U+039A", "U+03BA">>, <<"U+039B", "U+03BB">>,
      <<"U+039C", "U+03BC">>, <<"U+039D", "U+03BD">>, <<"U+039E", "U+03BE">>,
      <<"U+039F", "U+03BF">>, <<"U+03A0", "U+03C0">>, <<"U+03A1", "U+03C1">>,
      <<"U+03A3", "U+03C3">>, <<"U+03A4", "U+03C4">>, <<"U+03A5", "U+03C5">>,
      <<"U+03A6", "U+03C6">>, <<"U+03A7", "U+03C7">>, <<"U+03A8", "U+03C8">>,
      <<"U+03A9", "U+03C9">>, <<"U+03AA", "U+03CA">>, <<"U+03AB", "U+03CB">>,
      <<"U+03CF", "U+03D7">>, <<"U+03D8", "U+03D9">>, <<"U+03DA", "U+03DB">>,
      <<"U+03DC", "U+03DD">>, <<"U+03DE", "U+03DF">>, <<"U+03E0", "U+03E1">>,
      <<"U+03E2", "U+03E3">>, <<"U+03E4", "U+03E5">>, <<"U+03E6", "U+03E7">>,
      <<"U+03E8", "U+03E9">>, <<"U+03EA", "U+03EB">>, <<"U+03EC", "U+03ED">>,
      <<"U+03EE", "U+03EF">>, <<"U+03F4", "U+03B8">>, <<"U+03F7", "U+03F8">>,
      <<"U+03F9", "U+03F2">>, <<"U+03FA", "U+03FB">>, <<"U+03FD", "U+037B">>,
      <<"U+03FE", "U+037C">>, <<"U+03FF", "U+037D">>, <<"U+0400", "U+0450">>,
      <<"U+0401", "U+0451">>, <<"U+0402", "U+0452">>, <<"U+0403", "U+0453">>,
      <<"U+0404", "U+0454">>, <<"U+0405", "U+0455">>, <<"U+0406", "U+0456">>,
      <<"U+0407", "U+0457">>, <<"U+0408", "U+0458">>, <<"U+0409", "U+0459">>,
      <<"U+040A", "U+045A">>, <<"U+040B", "U+045B">>, <<"U+040C", "U+045C">>,
      <<"U+040D", "U+045D">>, <<"U+040E", "U+045E">>, <<"U+040F", "U+045F">>,
      <<"U+0410", "U+0430">>, <<"U+0411", "U+0431">>, <<"U+0412", "U+0432">>,
      <<"U+0413", "U+0433">>, <<"U+0414", "U+0434">>, <<"U+0415", "U+0435">>,
      <<"U+0416", "U+0436">>, <<"U+0417", "U+0437">>, <<"U+0418", "U+0438">>,
      <<"U+0419", "U+0439">>, <<"U+041A", "U+043A">>, <<"U+041B", "U+043B">>,
      <<"U+041C", "U+043C">>, <<"U+041D", "U+043D">>, <<"U+041E", "U+043E">>,
      <<"U+041F", "U+043F">>, <<"U+0420", "U+0440">>, <<"U+0421", "U+0441">>,
      <<"U+0422", "U+0442">>, <<"U+0423", "U+0443">>, <<"U+0424", "U+0444">>,
      <<"U+0425", "U+0445">>, <<"U+0426", "U+0446">>, <<"U+0427", "U+0447">>,
      <<"U+0428", "U+0448">>, <<"U+0429", "U+0449">>, <<"U+042A", "U+044A">>,
      <<"U+042B", "U+044B">>, <<"U+042C", "U+044C">>, <<"U+042D", "U+044D">>,
      <<"U+042E", "U+044E">>, <<"U+042F", "U+044F">>, <<"U+0460", "U+0461">>,
      <<"U+0462", "U+0463">>, <<"U+0464", "U+0465">>, <<"U+0466", "U+0467">>,
      <<"U+0468", "U+0469">>, <<"U+046A", "U+046B">>, <<"U+046C", "U+046D">>,
      <<"U+046E", "U+046F">>, <<"U+0470", "U+0471">>, <<"U+0472", "U+0473">>,
      <<"U+0474", "U+0475">>, <<"U+0476", "U+0477">>, <<"U+0478", "U+0479">>,
      <<"U+047A", "U+047B">>, <<"U+047C", "U+047D">>, <<"U+047E", "U+047F">>,
      <<"U+0480", "U+0481">>, <<"U+048A", "U+048B">>, <<"U+048C", "U+048D">>,
      <<"U+048E", "U+048F">>, <<"U+0490", "U+0491">>, <<"U+0492", "U+0493">>,
      <<"U+0494", "U+0495">>, <<"U+0496", "U+0497">>, <<"U+0498", "U+0499">>,
      <<"U+049A", "U+049B">>, <<"U+049C", "U+049D">>, <<"U+049E", "U+049F">>,
      <<"U+04A0", "U+04A1">>, <<"U+04A2", "U+04A3">>, <<"U+04A4", "U+04A5">>,
      <<"U+04A6", "U+04A7">>, <<"U+04A8", "U+04A9">>, <<"U+04AA", "U+04AB">>,
      <<"U+04AC", "U+04AD">>, <<"U+04AE", "U+04AF">>, <<"U+04B0", "U+04B1">>,
      <<"U+04B2", "U+04B3">>, <<"U+04B4", "U+04B5">>, <<"U+04B6", "U+04B7">>,
      <<"U+04B8", "U+04B9">>, <<"U+04BA", "U+04BB">>, <<"U+04BC", "U+04BD">>,
      <<"U+04BE", "U+04BF">>, <<"U+04C0", "U+04CF">>, <<"U+04C1", "U+04C2">>,
      <<"U+04C3", "U+04C4">>, <<"U+04C5", "U+04C6">>, <<"U+04C7", "U+04C8">>,
      <<"U+04C9", "U+04CA">>, <<"U+04CB", "U+04CC">>, <<"U+04CD", "U+04CE">>,
      <<"U+04D0", "U+04D1">>, <<"U+04D2", "U+04D3">>, <<"U+04D4", "U+04D5">>,
      <<"U+04D6", "U+04D7">>, <<"U+04D8", "U+04D9">>, <<"U+04DA", "U+04DB">>,
      <<"U+04DC", "U+04DD">>, <<"U+04DE", "U+04DF">>, <<"U+04E0", "U+04E1">>,
      <<"U+04E2", "U+04E3">>, <<"U+04E4", "U+04E5">>, <<"U+04E6", "U+04E7">>,
      <<"U+04E8", "U+04E9">>, <<"U+04EA", "U+04EB">>, <<"U+04EC", "U+04ED">>,
      <<"U+04EE", "U+04EF">>, <<"U+04F0", "U+04F1">>, <<"U+04F2", "U+04F3">>,
      <<"U+04F4", "U+04F5">>, <<"U+04F6", "U+04F7">>, <<"U+04F8", "U+04F9">>,
      <<"U+04FA", "U+04FB">>, <<"U+04FC", "U+04FD">>, <<"U+04FE", "U+04FF">>,
      <<"U+0500", "U+0501">>, <<"U+0502", "U+0503">>, <<"U+0504", "U+0505">>,
      <<"U+0506", "U+0507">>, <<"U+0508", "U+0509">>, <<"U+050A", "U+050B">>,
      <<"U+050C", "U+050D">>, <<"U+050E", "U+050F">>, <<"U+0510", "U+0511">>,
      <<"U+0512", "U+0513">>, <<"U+0514", "U+0515">>, <<"U+0516", "U+0517">>,
      <<"U+0518", "U+0519">>, <<"U+051A", "U+051B">>, <<"U+051C", "U+051D">>,
      <<"U+051E", "U+051F">>, <<"U+0520", "U+0521">>, <<"U+0522", "U+0523">>,
      <<"U+0524", "U+0525">>, <<"U+0526", "U+0527">>, <<"U+0528", "U+0529">>,
      <<"U+052A", "U+052B">>, <<"U+052C", "U+052D">>, <<"U+052E", "U+052F">>,
      <<"U+0531", "U+0561">>, <<"U+0532", "U+0562">>, <<"U+0533", "U+0563">>,
      <<"U+0534", "U+0564">>, <<"U+0535", "U+0565">>, <<"U+0536", "U+0566">>,
      <<"U+0537", "U+0567">>, <<"U+0538", "U+0568">>, <<"U+0539", "U+0569">>,
      <<"U+053A", "U+056A">>, <<"U+053B", "U+056B">>, <<"U+053C", "U+056C">>,
      <<"U+053D", "U+056D">>, <<"U+053E", "U+056E">>, <<"U+053F", "U+056F">>,
      <<"U+0540", "U+0570">>, <<"U+0541", "U+0571">>, <<"U+0542", "U+0572">>,
      <<"U+0543", "U+0573">>, <<"U+0544", "U+0574">>, <<"U+0545", "U+0575">>,
      <<"U+0546", "U+0576">>, <<"U+0547", "U+0577">>, <<"U+0548", "U+0578">>,
      <<"U+0549", "U+0579">>, <<"U+054A", "U+057A">>, <<"U+054B", "U+057B">>,
      <<"U+054C", "U+057C">>, <<"U+054D", "U+057D">>, <<"U+054E", "U+057E">>,
      <<"U+054F", "U+057F">>, <<"U+0550", "U+0580">>, <<"U+0551", "U+0581">>,
      <<"U+0552", "U+0582">>, <<"U+0553", "U+0583">>, <<"U+0554", "U+0584">>,
      <<"U+0555", "U+0585">>, <<"U+0556", "U+0586">>, <<"U+10A0", "U+2D00">>,
      <<"U+10A1", "U+2D01">>, <<"U+10A2", "U+2D02">>, <<"U+10A3", "U+2D03">>,
      <<"U+10A4", "U+2D04">>, <<"U+10A5", "U+2D05">>, <<"U+10A6", "U+2D06">>,
      <<"U+10A7", "U+2D07">>, <<"U+10A8", "U+2D08">>, <<"U+10A9", "U+2D09">>,
      <<"U+10AA", "U+2D0A">>, <<"U+10AB", "U+2D0B">>, <<"U+10AC", "U+2D0C">>,
      <<"U+10AD", "U+2D0D">>, <<"U+10AE", "U+2D0E">>, <<"U+10AF", "U+2D0F">>,
      <<"U+10B0", "U+2D10">>, <<"U+10B1", "U+2D11">>, <<"U+10B2", "U+2D12">>,
      <<"U+10B3", "U+2D13">>, <<"U+10B4", "U+2D14">>, <<"U+10B5", "U+2D15">>,
      <<"U+10B6", "U+2D16">>, <<"U+10B7", "U+2D17">>, <<"U+10B8", "U+2D18">>,
      <<"U+10B9", "U+2D19">>, <<"U+10BA", "U+2D1A">>, <<"U+10BB", "U+2D1B">>,
      <<"U+10BC", "U+2D1C">>, <<"U+10BD", "U+2D1D">>, <<"U+10BE", "U+2D1E">>,
      <<"U+10BF", "U+2D1F">>, <<"U+10C0", "U+2D20">>, <<"U+10C1", "U+2D21">>,
      <<"U+10C2", "U+2D22">>, <<"U+10C3", "U+2D23">>, <<"U+10C4", "U+2D24">>,
      <<"U+10C5", "U+2D25">>, <<"U+10C7", "U+2D27">>, <<"U+10CD", "U+2D2D">>,
      <<"U+13A0", "U+AB70">>, <<"U+13A1", "U+AB71">>, <<"U+13A2", "U+AB72">>,
      <<"U+13A3", "U+AB73">>, <<"U+13A4", "U+AB74">>, <<"U+13A5", "U+AB75">>,
      <<"U+13A6", "U+AB76">>, <<"U+13A7", "U+AB77">>, <<"U+13A8", "U+AB78">>,
      <<"U+13A9", "U+AB79">>, <<"U+13AA", "U+AB7A">>, <<"U+13AB", "U+AB7B">>,
      <<"U+13AC", "U+AB7C">>, <<"U+13AD", "U+AB7D">>, <<"U+13AE", "U+AB7E">>,
      <<"U+13AF", "U+AB7F">>, <<"U+13B0", "U+AB80">>, <<"U+13B1", "U+AB81">>,
      <<"U+13B2", "U+AB82">>, <<"U+13B3", "U+AB83">>, <<"U+13B4", "U+AB84">>,
      <<"U+13B5", "U+AB85">>, <<"U+13B6", "U+AB86">>, <<"U+13B7", "U+AB87">>,
      <<"U+13B8", "U+AB88">>, <<"U+13B9", "U+AB89">>, <<"U+13BA", "U+AB8A">>,
      <<"U+13BB", "U+AB8B">>, <<"U+13BC", "U+AB8C">>, <<"U+13BD", "U+AB8D">>,
      <<"U+13BE", "U+AB8E">>, <<"U+13BF", "U+AB8F">>, <<"U+13C0", "U+AB90">>,
      <<"U+13C1", "U+AB91">>, <<"U+13C2", "U+AB92">>, <<"U+13C3", "U+AB93">>,
      <<"U+13C4", "U+AB94">>, <<"U+13C5", "U+AB95">>, <<"U+13C6", "U+AB96">>,
      <<"U+13C7", "U+AB97">>, <<"U+13C8", "U+AB98">>, <<"U+13C9", "U+AB99">>,
      <<"U+13CA", "U+AB9A">>, <<"U+13CB", "U+AB9B">>, <<"U+13CC", "U+AB9C">>,
      <<"U+13CD", "U+AB9D">>, <<"U+13CE", "U+AB9E">>, <<"U+13CF", "U+AB9F">>,
      <<"U+13D0", "U+ABA0">>, <<"U+13D1", "U+ABA1">>, <<"U+13D2", "U+ABA2">>,
      <<"U+13D3", "U+ABA3">>, <<"U+13D4", "U+ABA4">>, <<"U+13D5", "U+ABA5">>,
      <<"U+13D6", "U+ABA6">>, <<"U+13D7", "U+ABA7">>, <<"U+13D8", "U+ABA8">>,
      <<"U+13D9", "U+ABA9">>, <<"U+13DA", "U+ABAA">>, <<"U+13DB", "U+ABAB">>,
      <<"U+13DC", "U+ABAC">>, <<"U+13DD", "U+ABAD">>, <<"U+13DE", "U+ABAE">>,
      <<"U+13DF", "U+ABAF">>, <<"U+13E0", "U+ABB0">>, <<"U+13E1", "U+ABB1">>,
      <<"U+13E2", "U+ABB2">>, <<"U+13E3", "U+ABB3">>, <<"U+13E4", "U+ABB4">>,
      <<"U+13E5", "U+ABB5">>, <<"U+13E6", "U+ABB6">>, <<"U+13E7", "U+ABB7">>,
      <<"U+13E8", "U+ABB8">>, <<"U+13E9", "U+ABB9">>, <<"U+13EA", "U+ABBA">>,
      <<"U+13EB", "U+ABBB">>, <<"U+13EC", "U+ABBC">>, <<"U+13ED", "U+ABBD">>,
      <<"U+13EE", "U+ABBE">>, <<"U+13EF", "U+ABBF">>, <<"U+13F0", "U+13F8">>,
      <<"U+13F1", "U+13F9">>, <<"U+13F2", "U+13FA">>, <<"U+13F3", "U+13FB">>,
      <<"U+13F4", "U+13FC">>, <<"U+13F5", "U+13FD">>, <<"U+1C90", "U+10D0">>,
      <<"U+1C91", "U+10D1">>, <<"U+1C92", "U+10D2">>, <<"U+1C93", "U+10D3">>,
      <<"U+1C94", "U+10D4">>, <<"U+1C95", "U+10D5">>, <<"U+1C96", "U+10D6">>,
      <<"U+1C97", "U+10D7">>, <<"U+1C98", "U+10D8">>, <<"U+1C99", "U+10D9">>,
      <<"U+1C9A", "U+10DA">>, <<"U+1C9B", "U+10DB">>, <<"U+1C9C", "U+10DC">>,
      <<"U+1C9D", "U+10DD">>, <<"U+1C9E", "U+10DE">>, <<"U+1C9F", "U+10DF">>,
      <<"U+1CA0", "U+10E0">>, <<"U+1CA1", "U+10E1">>, <<"U+1CA2", "U+10E2">>,
      <<"U+1CA3", "U+10E3">>, <<"U+1CA4", "U+10E4">>, <<"U+1CA5", "U+10E5">>,
      <<"U+1CA6", "U+10E6">>, <<"U+1CA7", "U+10E7">>, <<"U+1CA8", "U+10E8">>,
      <<"U+1CA9", "U+10E9">>, <<"U+1CAA", "U+10EA">>, <<"U+1CAB", "U+10EB">>,
      <<"U+1CAC", "U+10EC">>, <<"U+1CAD", "U+10ED">>, <<"U+1CAE", "U+10EE">>,
      <<"U+1CAF", "U+10EF">>, <<"U+1CB0", "U+10F0">>, <<"U+1CB1", "U+10F1">>,
      <<"U+1CB2", "U+10F2">>, <<"U+1CB3", "U+10F3">>, <<"U+1CB4", "U+10F4">>,
      <<"U+1CB5", "U+10F5">>, <<"U+1CB6", "U+10F6">>, <<"U+1CB7", "U+10F7">>,
      <<"U+1CB8", "U+10F8">>, <<"U+1CB9", "U+10F9">>, <<"U+1CBA", "U+10FA">>,
      <<"U+1CBD", "U+10FD">>, <<"U+1CBE", "U+10FE">>, <<"U+1CBF", "U+10FF">>,
      <<"U+1E00", "U+1E01">>, <<"U+1E02", "U+1E03">>, <<"U+1E04", "U+1E05">>,
      <<"U+1E06", "U+1E07">>, <<"U+1E08", "U+1E09">>, <<"U+1E0A", "U+1E0B">>,
      <<"U+1E0C", "U+1E0D">>, <<"U+1E0E", "U+1E0F">>, <<"U+1E10", "U+1E11">>,
      <<"U+1E12", "U+1E13">>, <<"U+1E14", "U+1E15">>, <<"U+1E16", "U+1E17">>,
      <<"U+1E18", "U+1E19">>, <<"U+1E1A", "U+1E1B">>, <<"U+1E1C", "U+1E1D">>,
      <<"U+1E1E", "U+1E1F">>, <<"U+1E20", "U+1E21">>, <<"U+1E22", "U+1E23">>,
      <<"U+1E24", "U+1E25">>, <<"U+1E26", "U+1E27">>, <<"U+1E28", "U+1E29">>,
      <<"U+1E2A", "U+1E2B">>, <<"U+1E2C", "U+1E2D">>, <<"U+1E2E", "U+1E2F">>,
      <<"U+1E30", "U+1E31">>, <<"U+1E32", "U+1E33">>, <<"U+1E34", "U+1E35">>,
      <<"U+1E36", "U+1E37">>, <<"U+1E38", "U+1E39">>, <<"U+1E3A", "U+1E3B">>,
      <<"U+1E3C", "U+1E3D">>, <<"U+1E3E", "U+1E3F">>, <<"U+1E40", "U+1E41">>,
      <<"U+1E42", "U+1E43">>, <<"U+1E44", "U+1E45">>, <<"U+1E46", "U+1E47">>,
      <<"U+1E48", "U+1E49">>, <<"U+1E4A", "U+1E4B">>, <<"U+1E4C", "U+1E4D">>,
      <<"U+1E4E", "U+1E4F">>, <<"U+1E50", "U+1E51">>, <<"U+1E52", "U+1E53">>,
      <<"U+1E54", "U+1E55">>, <<"U+1E56", "U+1E57">>, <<"U+1E58", "U+1E59">>,
      <<"U+1E5A", "U+1E5B">>, <<"U+1E5C", "U+1E5D">>, <<"U+1E5E", "U+1E5F">>,
      <<"U+1E60", "U+1E61">>, <<"U+1E62", "U+1E63">>, <<"U+1E64", "U+1E65">>,
      <<"U+1E66", "U+1E67">>, <<"U+1E68", "U+1E69">>, <<"U+1E6A", "U+1E6B">>,
      <<"U+1E6C", "U+1E6D">>, <<"U+1E6E", "U+1E6F">>, <<"U+1E70", "U+1E71">>,
      <<"U+1E72", "U+1E73">>, <<"U+1E74", "U+1E75">>, <<"U+1E76", "U+1E77">>,
      <<"U+1E78", "U+1E79">>, <<"U+1E7A", "U+1E7B">>, <<"U+1E7C", "U+1E7D">>,
      <<"U+1E7E", "U+1E7F">>, <<"U+1E80", "U+1E81">>, <<"U+1E82", "U+1E83">>,
      <<"U+1E84", "U+1E85">>, <<"U+1E86", "U+1E87">>, <<"U+1E88", "U+1E89">>,
      <<"U+1E8A", "U+1E8B">>, <<"U+1E8C", "U+1E8D">>, <<"U+1E8E", "U+1E8F">>,
      <<"U+1E90", "U+1E91">>, <<"U+1E92", "U+1E93">>, <<"U+1E94", "U+1E95">>,
      <<"U+1E9E", "U+00DF">>, <<"U+1EA0", "U+1EA1">>, <<"U+1EA2", "U+1EA3">>,
      <<"U+1EA4", "U+1EA5">>, <<"U+1EA6", "U+1EA7">>, <<"U+1EA8", "U+1EA9">>,
      <<"U+1EAA", "U+1EAB">>, <<"U+1EAC", "U+1EAD">>, <<"U+1EAE", "U+1EAF">>,
      <<"U+1EB0", "U+1EB1">>, <<"U+1EB2", "U+1EB3">>, <<"U+1EB4", "U+1EB5">>,
      <<"U+1EB6", "U+1EB7">>, <<"U+1EB8", "U+1EB9">>, <<"U+1EBA", "U+1EBB">>,
      <<"U+1EBC", "U+1EBD">>, <<"U+1EBE", "U+1EBF">>, <<"U+1EC0", "U+1EC1">>,
      <<"U+1EC2", "U+1EC3">>, <<"U+1EC4", "U+1EC5">>, <<"U+1EC6", "U+1EC7">>,
      <<"U+1EC8", "U+1EC9">>, <<"U+1ECA", "U+1ECB">>, <<"U+1ECC", "U+1ECD">>,
      <<"U+1ECE", "U+1ECF">>, <<"U+1ED0", "U+1ED1">>, <<"U+1ED2", "U+1ED3">>,
      <<"U+1ED4", "U+1ED5">>, <<"U+1ED6", "U+1ED7">>, <<"U+1ED8", "U+1ED9">>,
      <<"U+1EDA", "U+1EDB">>, <<"U+1EDC", "U+1EDD">>, <<"U+1EDE", "U+1EDF">>,
      <<"U+1EE0", "U+1EE1">>, <<"U+1EE2", "U+1EE3">>, <<"U+1EE4", "U+1EE5">>,
      <<"U+1EE6", "U+1EE7">>, <<"U+1EE8", "U+1EE9">>, <<"U+1EEA", "U+1EEB">>,
      <<"U+1EEC", "U+1EED">>, <<"U+1EEE", "U+1EEF">>, <<"U+1EF0", "U+1EF1">>,
      <<"U+1EF2", "U+1EF3">>, <<"U+1EF4", "U+1EF5">>, <<"U+1EF6", "U+1EF7">>,
      <<"U+1EF8", "U+1EF9">>, <<"U+1EFA", "U+1EFB">>, <<"U+1EFC", "U+1EFD">>,
      <<"U+1EFE", "U+1EFF">>, <<"U+1F08", "U+1F00">>, <<"U+1F09", "U+1F01">>,
      <<"U+1F0A", "U+1F02">>, <<"U+1F0B", "U+1F03">>, <<"U+1F0C", "U+1F04">>,
      <<"U+1F0D", "U+1F05">>, <<"U+1F0E", "U+1F06">>, <<"U+1F0F", "U+1F07">>,
      <<"U+1F18", "U+1F10">>, <<"U+1F19", "U+1F11">>, <<"U+1F1A", "U+1F12">>,
      <<"U+1F1B", "U+1F13">>, <<"U+1F1C", "U+1F14">>, <<"U+1F1D", "U+1F15">>,
      <<"U+1F28", "U+1F20">>, <<"U+1F29", "U+1F21">>, <<"U+1F2A", "U+1F22">>,
      <<"U+1F2B", "U+1F23">>, <<"U+1F2C", "U+1F24">>, <<"U+1F2D", "U+1F25">>,
      <<"U+1F2E", "U+1F26">>, <<"U+1F2F", "U+1F27">>, <<"U+1F38", "U+1F30">>,
      <<"U+1F39", "U+1F31">>, <<"U+1F3A", "U+1F32">>, <<"U+1F3B", "U+1F33">>,
      <<"U+1F3C", "U+1F34">>, <<"U+1F3D", "U+1F35">>, <<"U+1F3E", "U+1F36">>,
      <<"U+1F3F", "U+1F37">>, <<"U+1F48", "U+1F40">>, <<"U+1F49", "U+1F41">>,
      <<"U+1F4A", "U+1F42">>, <<"U+1F4B", "U+1F43">>, <<"U+1F4C", "U+1F44">>,
      <<"U+1F4D", "U+1F45">>, <<"U+1F59", "U+1F51">>, <<"U+1F5B", "U+1F53">>,
      <<"U+1F5D", "U+1F55">>, <<"U+1F5F", "U+1F57">>, <<"U+1F68", "U+1F60">>,
      <<"U+1F69", "U+1F61">>, <<"U+1F6A", "U+1F62">>, <<"U+1F6B", "U+1F63">>,
      <<"U+1F6C", "U+1F64">>, <<"U+1F6D", "U+1F65">>, <<"U+1F6E", "U+1F66">>,
      <<"U+1F6F", "U+1F67">>, <<"U+1F88", "U+1F80">>, <<"U+1F89", "U+1F81">>,
      <<"U+1F8A", "U+1F82">>, <<"U+1F8B", "U+1F83">>, <<"U+1F8C", "U+1F84">>,
      <<"U+1F8D", "U+1F85">>, <<"U+1F8E", "U+1F86">>, <<"U+1F8F", "U+1F87">>,
      <<"U+1F98", "U+1F90">>, <<"U+1F99", "U+1F91">>, <<"U+1F9A", "U+1F92">>,
      <<"U+1F9B", "U+1F93">>, <<"U+1F9C", "U+1F94">>, <<"U+1F9D", "U+1F95">>,
      <<"U+1F9E", "U+1F96">>, <<"U+1F9F", "U+1F97">>, <<"U+1FA8", "U+1FA0">>,
      <<"U+1FA9", "U+1FA1">>, <<"U+1FAA", "U+1FA2">>, <<"U+1FAB", "U+1FA3">>,
      <<"U+1FAC", "U+1FA4">>, <<"U+1FAD", "U+1FA5">>, <<"U+1FAE", "U+1FA6">>,
      <<"U+1FAF", "U+1FA7">>, <<"U+1FB8", "U+1FB0">>, <<"U+1FB9", "U+1FB1">>,
      <<"U+1FBA", "U+1F70">>, <<"U+1FBB", "U+1F71">>, <<"U+1FBC", "U+1FB3">>,
      <<"U+1FC8", "U+1F72">>, <<"U+1FC9", "U+1F73">>, <<"U+1FCA", "U+1F74">>,
      <<"U+1FCB", "U+1F75">>, <<"U+1FCC", "U+1FC3">>, <<"U+1FD8", "U+1FD0">>,
      <<"U+1FD9", "U+1FD1">>, <<"U+1FDA", "U+1F76">>, <<"U+1FDB", "U+1F77">>,
      <<"U+1FE8", "U+1FE0">>, <<"U+1FE9", "U+1FE1">>, <<"U+1FEA", "U+1F7A">>,
      <<"U+1FEB", "U+1F7B">>, <<"U+1FEC", "U+1FE5">>, <<"U+1FF8", "U+1F78">>,
      <<"U+1FF9", "U+1F79">>, <<"U+1FFA", "U+1F7C">>, <<"U+1FFB", "U+1F7D">>,
      <<"U+1FFC", "U+1FF3">>, <<"U+2126", "U+03C9">>, <<"U+212A", "k">>,
      <<"U+212B", "U+00E5">>, <<"U+2132", "U+214E">>, <<"U+2160", "U+2170">>,
      <<"U+2161", "U+2171">>, <<"U+2162", "U+2172">>, <<"U+2163", "U+2173">>,
      <<"U+2164", "U+2174">>, <<"U+2165", "U+2175">>, <<"U+2166", "U+2176">>,
      <<"U+2167", "U+2177">>, <<"U+2168", "U+2178">>, <<"U+2169", "U+2179">>,
      <<"U+216A", "U+217A">>, <<"U+216B", "U+217B">>, <<"U+216C", "U+217C">>,
      <<"U+216D", "U+217D">>, <<"U+216E", "U+217E">>, <<"U+216F", "U+217F">>,
      <<"U+2183", "U+2184">>, <<"U+24B6", "U+24D0">>, <<"U+24B7", "U+24D1">>,
      <<"U+24B8", "U+24D2">>, <<"U+24B9", "U+24D3">>, <<"U+24BA", "U+24D4">>,
      <<"U+24BB", "U+24D5">>, <<"U+24BC", "U+24D6">>, <<"U+24BD", "U+24D7">>,
      <<"U+24BE", "U+24D8">>, <<"U+24BF", "U+24D9">>, <<"U+24C0", "U+24DA">>,
      <<"U+24C1", "U+24DB">>, <<"U+24C2", "U+24DC">>, <<"U+24C3", "U+24DD">>,
      <<"U+24C4", "U+24DE">>, <<"U+24C5", "U+24DF">>, <<"U+24C6", "U+24E0">>,
      <<"U+24C7", "U+24E1">>, <<"U+24C8", "U+24E2">>, <<"U+24C9", "U+24E3">>,
      <<"U+24CA", "U+24E4">>, <<"U+24CB", "U+24E5">>, <<"U+24CC", "U+24E6">>,
      <<"U+24CD", "U+24E7">>, <<"U+24CE", "U+24E8">>, <<"U+24CF", "U+24E9">>,
      <<"U+2C00", "U+2C30">>, <<"U+2C01", "U+2C31">>, <<"U+2C02", "U+2C32">>,
      <<"U+2C03", "U+2C33">>, <<"U+2C04", "U+2C34">>, <<"U+2C05", "U+2C35">>,
      <<"U+2C06", "U+2C36">>, <<"U+2C07", "U+2C37">>, <<"U+2C08", "U+2C38">>,
      <<"U+2C09", "U+2C39">>, <<"U+2C0A", "U+2C3A">>, <<"U+2C0B", "U+2C3B">>,
      <<"U+2C0C", "U+2C3C">>, <<"U+2C0D", "U+2C3D">>, <<"U+2C0E", "U+2C3E">>,
      <<"U+2C0F", "U+2C3F">>, <<"U+2C10", "U+2C40">>, <<"U+2C11", "U+2C41">>,
      <<"U+2C12", "U+2C42">>, <<"U+2C13", "U+2C43">>, <<"U+2C14", "U+2C44">>,
      <<"U+2C15", "U+2C45">>, <<"U+2C16", "U+2C46">>, <<"U+2C17", "U+2C47">>,
      <<"U+2C18", "U+2C48">>, <<"U+2C19", "U+2C49">>, <<"U+2C1A", "U+2C4A">>,
      <<"U+2C1B", "U+2C4B">>, <<"U+2C1C", "U+2C4C">>, <<"U+2C1D", "U+2C4D">>,
      <<"U+2C1E", "U+2C4E">>, <<"U+2C1F", "U+2C4F">>, <<"U+2C20", "U+2C50">>,
      <<"U+2C21", "U+2C51">>, <<"U+2C22", "U+2C52">>, <<"U+2C23", "U+2C53">>,
      <<"U+2C24", "U+2C54">>, <<"U+2C25", "U+2C55">>, <<"U+2C26", "U+2C56">>,
      <<"U+2C27", "U+2C57">>, <<"U+2C28", "U+2C58">>, <<"U+2C29", "U+2C59">>,
      <<"U+2C2A", "U+2C5A">>, <<"U+2C2B", "U+2C5B">>, <<"U+2C2C", "U+2C5C">>,
      <<"U+2C2D", "U+2C5D">>, <<"U+2C2E", "U+2C5E">>, <<"U+2C2F", "U+2C5F">>,
      <<"U+2C60", "U+2C61">>, <<"U+2C62", "U+026B">>, <<"U+2C63", "U+1D7D">>,
      <<"U+2C64", "U+027D">>, <<"U+2C67", "U+2C68">>, <<"U+2C69", "U+2C6A">>,
      <<"U+2C6B", "U+2C6C">>, <<"U+2C6D", "U+0251">>, <<"U+2C6E", "U+0271">>,
      <<"U+2C6F", "U+0250">>, <<"U+2C70", "U+0252">>, <<"U+2C72", "U+2C73">>,
      <<"U+2C75", "U+2C76">>, <<"U+2C7E", "U+023F">>, <<"U+2C7F", "U+0240">>,
      <<"U+2C80", "U+2C81">>, <<"U+2C82", "U+2C83">>, <<"U+2C84", "U+2C85">>,
      <<"U+2C86", "U+2C87">>, <<"U+2C88", "U+2C89">>, <<"U+2C8A", "U+2C8B">>,
      <<"U+2C8C", "U+2C8D">>, <<"U+2C8E", "U+2C8F">>, <<"U+2C90", "U+2C91">>,
      <<"U+2C92", "U+2C93">>, <<"U+2C94", "U+2C95">>, <<"U+2C96", "U+2C97">>,
      <<"U+2C98", "U+2C99">>, <<"U+2C9A", "U+2C9B">>, <<"U+2C9C", "U+2C9D">>,
      <<"U+2C9E", "U+2C9F">>, <<"U+2CA0", "U+2CA1">>, <<"U+2CA2", "U+2CA3">>,
      <<"U+2CA4", "U+2CA5">>, <<"U+2CA6", "U+2CA7">>, <<"U+2CA8", "U+2CA9">>,
      <<"U+2CAA", "U+2CAB">>, <<"U+2CAC", "U+2CAD">>, <<"U+2CAE", "U+2CAF">>,
      <<"U+2CB0", "U+2CB1">>, <<"U+2CB2", "U+2CB3">>, <<"U+2CB4", "U+2CB5">>,
      <<"U+2CB6", "U+2CB7">>, <<"U+2CB8", "U+2CB9">>, <<"U+2CBA", "U+2CBB">>,
      <<"U+2CBC", "U+2CBD">>, <<"U+2CBE", "U+2CBF">>, <<"U+2CC0", "U+2CC1">>,
      <<"U+2CC2", "U+2CC3">>, <<"U+2CC4", "U+2CC5">>, <<"U+2CC6", "U+2CC7">>,
      <<"U+2CC8", "U+2CC9">>, <<"U+2CCA", "U+2CCB">>, <<"U+2CCC", "U+2CCD">>,
      <<"U+2CCE", "U+2CCF">>, <<"U+2CD0", "U+2CD1">>, <<"U+2CD2", "U+2CD3">>,
      <<"U+2CD4", "U+2CD5">>, <<"U+2CD6", "U+2CD7">>, <<"U+2CD8", "U+2CD9">>,
      <<"U+2CDA", "U+2CDB">>, <<"U+2CDC", "U+2CDD">>, <<"U+2CDE", "U+2CDF">>,
      <<"U+2CE0", "U+2CE1">>, <<"U+2CE2", "U+2CE3">>, <<"U+2CEB", "U+2CEC">>,
      <<"U+2CED", "U+2CEE">>, <<"U+2CF2", "U+2CF3">>, <<"U+A640", "U+A641">>,
      <<"U+A642", "U+A643">>, <<"U+A644", "U+A645">>, <<"U+A646", "U+A647">>,
      <<"U+A648", "U+A649">>, <<"U+A64A", "U+A64B">>, <<"U+A64C", "U+A64D">>,
      <<"U+A64E", "U+A64F">>, <<"U+A650", "U+A651">>, <<"U+A652", "U+A653">>,
      <<"U+A654", "U+A655">>, <<"U+A656", "U+A657">>, <<"U+A658", "U+A659">>,
      <<"U+A65A", "U+A65B">>, <<"U+A65C", "U+A65D">>, <<"U+A65E", "U+A65F">>,
      <<"U+A660", "U+A661">>, <<"U+A662", "U+A663">>, <<"U+A664", "U+A665">>,
      <<"U+A666", "U+A667">>, <<"U+A668", "U+A669">>, <<"U+A66A", "U+A66B">>,
      <<"U+A66C", "U+A66D">>, <<"U+A680", "U+A681">>, <<"U+A682", "U+A683">>,
      <<"U+A684", "U+A685">>, <<"U+A686", "U+A687">>, <<"U+A688", "U+A689">>,
      <<"U+A68A", "U+A68B">>, <<"U+A68C", "U+A68D">>, <<"U+A68E", "U+A68F">>,
      <<"U+A690", "U+A691">>, <<"U+A692", "U+A693">>, <<"U+A694", "U+A695">>,
      <<"U+A696", "U+A697">>, <<"U+A698", "U+A699">>, <<"U+A69A", "U+A69B">>,
      <<"U+A722", "U+A723">>, <<"U+A724", "U+A725">>, <<"U+A726", "U+A727">>,
      <<"U+A728", "U+A729">>, <<"U+A72A", "U+A72B">>, <<"U+A72C", "U+A72D">>,
      <<"U+A72E", "U+A72F">>, <<"U+A732", "U+A733">>, <<"U+A734", "U+A735">>,
      <<"U+A736", "U+A737">>, <<"U+A738", "U+A739">>, <<"U+A73A", "U+A73B">>,
      <<"U+A73C", "U+A73D">>, <<"U+A73E", "U+A73F">>, <<"U+A740", "U+A741">>,
      <<"U+A742", "U+A743">>, <<"U+A744", "U+A745">>, <<"U+A746", "U+A747">>,
      <<"U+A748", "U+A749">>, <<"U+A74A", "U+A74B">>, <<"U+A74C", "U+A74D">>,
      <<"U+A74E", "U+A74F">>, <<"U+A750", "U+A751">>, <<"U+A752", "U+A753">>,
      <<"U+A754", "U+A755">>, <<"U+A756", "U+A757">>, <<"U+A758", "U+A759">>,
      <<"U+A75A", "U+A75B">>, <<"U+A75C", "U+A75D">>, <<"U+A75E", "U+A75F">>,
      <<"U+A760", "U+A761">>, <<"U+A762", "U+A763">>, <<"U+A764", "U+A765">>,
      <<"U+A766", "U+A767">>, <<"U+A768", "U+A769">>, <<"U+A76A", "U+A76B">>,
      <<"U+A76C", "U+A76D">>, <<"U+A76E", "U+A76F">>, <<"U+A779", "U+A77A">>,
      <<"U+A77B", "U+A77C">>, <<"U+A77D", "U+1D79">>, <<"U+A77E", "U+A77F">>,
      <<"U+A780", "U+A781">>, <<"U+A782", "U+A783">>, <<"U+A784", "U+A785">>,
      <<"U+A786", "U+A787">>, <<"U+A78B", "U+A78C">>, <<"U+A78D", "U+0265">>,
      <<"U+A790", "U+A791">>, <<"U+A792", "U+A793">>, <<"U+A796", "U+A797">>,
      <<"U+A798", "U+A799">>, <<"U+A79A", "U+A79B">>, <<"U+A79C", "U+A79D">>,
      <<"U+A79E", "U+A79F">>, <<"U+A7A0", "U+A7A1">>, <<"U+A7A2", "U+A7A3">>,
      <<"U+A7A4", "U+A7A5">>, <<"U+A7A6", "U+A7A7">>, <<"U+A7A8", "U+A7A9">>,
      <<"U+A7AA", "U+0266">>, <<"U+A7AB", "U+025C">>, <<"U+A7AC", "U+0261">>,
      <<"U+A7AD", "U+026C">>, <<"U+A7AE", "U+026A">>, <<"U+A7B0", "U+029E">>,
      <<"U+A7B1", "U+0287">>, <<"U+A7B2", "U+029D">>, <<"U+A7B3", "U+AB53">>,
      <<"U+A7B4", "U+A7B5">>, <<"U+A7B6", "U+A7B7">>, <<"U+A7B8", "U+A7B9">>,
      <<"U+A7BA", "U+A7BB">>, <<"U+A7BC", "U+A7BD">>, <<"U+A7BE", "U+A7BF">>,
      <<"U+A7C0", "U+A7C1">>, <<"U+A7C2", "U+A7C3">>, <<"U+A7C4", "U+A794">>,
      <<"U+A7C5", "U+0282">>, <<"U+A7C6", "U+1D8E">>, <<"U+A7C7", "U+A7C8">>,
      <<"U+A7C9", "U+A7CA">>, <<"U+A7D0", "U+A7D1">>, <<"U+A7D6", "U+A7D7">>,
      <<"U+A7D8", "U+A7D9">>, <<"U+A7F5", "U+A7F6">>, <<"U+FF21", "U+FF41">>,
      <<"U+FF22", "U+FF42">>, <<"U+FF23", "U+FF43">>, <<"U+FF24", "U+FF44">>,
      <<"U+FF25", "U+FF45">>, <<"U+FF26", "U+FF46">>, <<"U+FF27", "U+FF47">>,
      <<"U+FF28", "U+FF48">>, <<"U+FF29", "U+FF49">>, <<"U+FF2A", "U+FF4A">>,
      <<"U+FF2B", "U+FF4B">>, <<"U+FF2C", "U+FF4C">>, <<"U+FF2D", "U+FF4D">>,
      <<"U+FF2E", "U+FF4E">>, <<"U+FF2F", "U+FF4F">>, <<"U+FF30", "U+FF50">>,
      <<"U+FF31", "U+FF51">>, <<"U+FF32", "U+FF52">>, <<"U+FF33", "U+FF53">>,
      <<"U+FF34", "U+FF54">>, <<"U+FF35", "U+FF55">>, <<"U+FF36", "U+FF56">>,
      <<"U+FF37", "U+FF57">>, <<"U+FF38", "U+FF58">>, <<"U+FF39", "U+FF59">>,
      <<"U+FF3A", "U+FF5A">>, <<"U+10400", "U+10428">>,
      <<"U+10401", "U+10429">>, <<"U+10402", "U+1042A">>,
      <<"U+10403", "U+1042B">>, <<"U+10404", "U+1042C">>,
      <<"U+10405", "U+1042D">>, <<"U+10406", "U+1042E">>,
      <<"U+10407", "U+1042F">>, <<"U+10408", "U+10430">>,
      <<"U+10409", "U+10431">>, <<"U+1040A", "U+10432">>,
      <<"U+1040B", "U+10433">>, <<"U+1040C", "U+10434">>,
      <<"U+1040D", "U+10435">>, <<"U+1040E", "U+10436">>,
      <<"U+1040F", "U+10437">>, <<"U+10410", "U+10438">>,
      <<"U+10411", "U+10439">>, <<"U+10412", "U+1043A">>,
      <<"U+10413", "U+1043B">>, <<"U+10414", "U+1043C">>,
      <<"U+10415", "U+1043D">>, <<"U+10416", "U+1043E">>,
      <<"U+10417", "U+1043F">>, <<"U+10418", "U+10440">>,
      <<"U+10419", "U+10441">>, <<"U+1041A", "U+10442">>,
      <<"U+1041B", "U+10443">>, <<"U+1041C", "U+10444">>,
      <<"U+1041D", "U+10445">>, <<"U+1041E", "U+10446">>,
      <<"U+1041F", "U+10447">>, <<"U+10420", "U+10448">>,
      <<"U+10421", "U+10449">>, <<"U+10422", "U+1044A">>,
      <<"U+10423", "U+1044B">>, <<"U+10424", "U+1044C">>,
      <<"U+10425", "U+1044D">>, <<"U+10426", "U+1044E">>,
      <<"U+10427", "U+1044F">>, <<"U+104B0", "U+104D8">>,
      <<"U+104B1", "U+104D9">>, <<"U+104B2", "U+104DA">>,
      <<"U+104B3", "U+104DB">>, <<"U+104B4", "U+104DC">>,
      <<"U+104B5", "U+104DD">>, <<"U+104B6", "U+104DE">>,
      <<"U+104B7", "U+104DF">>, <<"U+104B8", "U+104E0">>,
      <<"U+104B9", "U+104E1">>, <<"U+104BA", "U+104E2">>,
      <<"U+104BB", "U+104E3">>, <<"U+104BC", "U+104E4">>,
      <<"U+104BD", "U+104E5">>, <<"U+104BE", "U+104E6">>,
      <<"U+104BF", "U+104E7">>, <<"U+104C0", "U+104E8">>,
      <<"U+104C1", "U+104E9">>, <<"U+104C2", "U+104EA">>,
      <<"U+104C3", "U+104EB">>, <<"U+104C4", "U+104EC">>,
      <<"U+104C5", "U+104ED">>, <<"U+104C6", "U+104EE">>,
      <<"U+104C7", "U+104EF">>, <<"U+104C8", "U+104F0">>,
      <<"U+104C9", "U+104F1">>, <<"U+104CA", "U+104F2">>,
      <<"U+104CB", "U+104F3">>, <<"U+104CC", "U+104F4">>,
      <<"U+104CD", "U+104F5">>, <<"U+104CE", "U+104F6">>,
      <<"U+104CF", "U+104F7">>, <<"U+104D0", "U+104F8">>,
      <<"U+104D1", "U+104F9">>, <<"U+104D2", "U+104FA">>,
      <<"U+104D3", "U+104FB">>, <<"U+10570", "U+10597">>,
      <<"U+10571", "U+10598">>, <<"U+10572", "U+10599">>,
      <<"U+10573", "U+1059A">>, <<"U+10574", "U+1059B">>,
      <<"U+10575", "U+1059C">>, <<"U+10576", "U+1059D">>,
      <<"U+10577", "U+1059E">>, <<"U+10578", "U+1059F">>,
      <<"U+10579", "U+105A0">>, <<"U+1057A", "U+105A1">>,
      <<"U+1057C", "U+105A3">>, <<"U+1057D", "U+105A4">>,
      <<"U+1057E", "U+105A5">>, <<"U+1057F", "U+105A6">>,
      <<"U+10580", "U+105A7">>, <<"U+10581", "U+105A8">>,
      <<"U+10582", "U+105A9">>, <<"U+10583", "U+105AA">>,
      <<"U+10584", "U+105AB">>, <<"U+10585", "U+105AC">>,
      <<"U+10586", "U+105AD">>, <<"U+10587", "U+105AE">>,
      <<"U+10588", "U+105AF">>, <<"U+10589", "U+105B0">>,
      <<"U+1058A", "U+105B1">>, <<"U+1058C", "U+105B3">>,
      <<"U+1058D", "U+105B4">>, <<"U+1058E", "U+105B5">>,
      <<"U+1058F", "U+105B6">>, <<"U+10590", "U+105B7">>,
      <<"U+10591", "U+105B8">>, <<"U+10592", "U+105B9">>,
      <<"U+10594", "U+105BB">>, <<"U+10595", "U+105BC">>,
      <<"U+10C80", "U+10CC0">>, <<"U+10C81", "U+10CC1">>,
      <<"U+10C82", "U+10CC2">>, <<"U+10C83", "U+10CC3">>,
      <<"U+10C84", "U+10CC4">>, <<"U+10C85", "U+10CC5">>,
      <<"U+10C86", "U+10CC6">>, <<"U+10C87", "U+10CC7">>,
      <<"U+10C88", "U+10CC8">>, <<"U+10C89", "U+10CC9">>,
      <<"U+10C8A", "U+10CCA">>, <<"U+10C8B", "U+10CCB">>,
      <<"U+10C8C", "U+10CCC">>, <<"U+10C8D", "U+10CCD">>,
      <<"U+10C8E", "U+10CCE">>, <<"U+10C8F", "U+10CCF">>,
      <<"U+10C90", "U+10CD0">>, <<"U+10C91", "U+10CD1">>,
      <<"U+10C92", "U+10CD2">>, <<"U+10C93", "U+10CD3">>,
      <<"U+10C94", "U+10CD4">>, <<"U+10C95", "U+10CD5">>,
      <<"U+10C96", "U+10CD6">>, <<"U+10C97", "U+10CD7">>,
      <<"U+10C98", "U+10CD8">>, <<"U+10C99", "U+10CD9">>,
      <<"U+10C9A", "U+10CDA">>, <<"U+10C9B", "U+10CDB">>,
      <<"U+10C9C", "U+10CDC">>, <<"U+10C9D", "U+10CDD">>,
      <<"U+10C9E", "U+10CDE">>, <<"U+10C9F", "U+10CDF">>,
      <<"U+10CA0", "U+10CE0">>, <<"U+10CA1", "U+10CE1">>,
      <<"U+10CA2", "U+10CE2">>, <<"U+10CA3", "U+10CE3">>,
      <<"U+10CA4", "U+10CE4">>, <<"U+10CA5", "U+10CE5">>,
      <<"U+10CA6", "U+10CE6">>, <<"U+10CA7", "U+10CE7">>,
      <<"U+10CA8", "U+10CE8">>, <<"U+10CA9", "U+10CE9">>,
      <<"U+10CAA", "U+10CEA">>, <<"U+10CAB", "U+10CEB">>,
      <<"U+10CAC", "U+10CEC">>, <<"U+10CAD", "U+10CED">>,
      <<"U+10CAE", "U+10CEE">>, <<"U+10CAF", "U+10CEF">>,
      <<"U+10CB0", "U+10CF0">>, <<"U+10CB1", "U+10CF1">>,
      <<"U+10CB2", "U+10CF2">>, <<"U+118A0", "U+118C0">>,
      <<"U+118A1", "U+118C1">>, <<"U+118A2", "U+118C2">>,
      <<"U+118A3", "U+118C3">>, <<"U+118A4", "U+118C4">>,
      <<"U+118A5", "U+118C5">>, <<"U+118A6", "U+118C6">>,
      <<"U+118A7", "U+118C7">>, <<"U+118A8", "U+118C8">>,
      <<"U+118A9", "U+118C9">>, <<"U+118AA", "U+118CA">>,
      <<"U+118AB", "U+118CB">>, <<"U+118AC", "U+118CC">>,
      <<"U+118AD", "U+118CD">>, <<"U+118AE", "U+118CE">>,
      <<"U+118AF", "U+118CF">>, <<"U+118B0", "U+118D0">>,
      <<"U+118B1", "U+118D1">>, <<"U+118B2", "U+118D2">>,
      <<"U+118B3", "U+118D3">>, <<"U+118B4", "U+118D4">>,
      <<"U+118B5", "U+118D5">>, <<"U+118B6", "U+118D6">>,
      <<"U+118B7", "U+118D7">>, <<"U+118B8", "U+118D8">>,
      <<"U+118B9", "U+118D9">>, <<"U+118BA", "U+118DA">>,
      <<"U+118BB", "U+118DB">>, <<"U+118BC", "U+118DC">>,
      <<"U+118BD", "U+118DD">>, <<"U+118BE", "U+118DE">>,
      <<"U+118BF", "U+118DF">>, <<"U+16E40", "U+16E60">>,
      <<"U+16E41", "U+16E61">>, <<"U+16E42", "U+16E62">>,
      <<"U+16E43", "U+16E63">>, <<"U+16E44", "U+16E64">>,
      <<"U+16E45", "U+16E65">>, <<"U+16E46", "U+16E66">>,
      <<"U+16E47", "U+16E67">>, <<"U+16E48", "U+16E68">>,
      <<"U+16E49", "U+16E69">>, <<"U+16E4A", "U+16E6A">>,
      <<"U+16E4B", "U+16E6B">>, <<"U+16E4C", "U+16E6C">>,
      <<"U+16E4D", "U+16E6D">>, <<"U+16E4E", "U+16E6E">>,
      <<"U+16E4F", "U+16E6F">>, <<"U+16E50", "U+16E70">>,
      <<"U+16E51", "U+16E71">>, <<"U+16E52", "U+16E72">>,
      <<"U+16E53", "U+16E73">>, <<"U+16E54", "U+16E74">>,
      <<"U+16E55", "U+16E75">>, <<"U+16E56", "U+16E76">>,
      <<"U+16E57", "U+16E77">>, <<"U+16E58", "U+16E78">>,
      <<"U+16E59", "U+16E79">>, <<"U+16E5A", "U+16E7A">>,
      <<"U+16E5B", "U+16E7B">>, <<"U+16E5C", "U+16E7C">>,
      <<"U+16E5D", "U+16E7D">>, <<"U+16E5E", "U+16E7E">>,
      <<"U+16E5F", "U+16E7F">>, <<"U+1E900", "U+1E922">>,
      <<"U+1E901", "U+1E923">>, <<"U+1E902", "U+1E924">>,
      <<"U+1E903", "U+1E925">>, <<"U+1E904", "U+1E926">>,
      <<"U+1E905", "U+1E927">>, <<"U+1E906", "U+1E928">>,
      <<"U+1E907", "U+1E929">>, <<"U+1E908", "U+1E92A">>,
      <<"U+1E909", "U+1E92B">>, <<"U+1E90A", "U+1E92C">>,
      <<"U+1E90B", "U+1E92D">>, <<"U+1E90C", "U+1E92E">>,
      <<"U+1E90D", "U+1E92F">>, <<"U+1E90E", "U+1E930">>,
      <<"U+1E90F", "U+1E931">>, <<"U+1E910", "U+1E932">>,
      <<"U+1E911", "U+1E933">>, <<"U+1E912", "U+1E934">>,
      <<"U+1E913", "U+1E935">>, <<"U+1E914", "U+1E936">>,
      <<"U+1E915", "U+1E937">>, <<"U+1E916", "U+1E938">>,
      <<"U+1E917", "U+1E939">>, <<"U+1E918", "U+1E93A">>,
      <<"U+1E919", "U+1E93B">>, <<"U+1E91A", "U+1E93C">>,
      <<"U+1E91B", "U+1E93D">>, <<"U+1E91C", "U+1E93E">>,
      <<"U+1E91D", "U+1E93F">>, <<"U+1E91E", "U+1E940">>,
      <<"U+1E91F", "U+1E941">>, <<"U+1E920", "U+1E942">>,
      <<"U+1E921", "U+1E943">> }

\* unicode.ToLower on one character
LowerChar(c) ==
    IF IsAscii(c)
    THEN (IF c \in DOMAIN AsciiLower THEN AsciiLower[c] ELSE c)
    ELSE LET hit == {p \in CasePairs : p[1] = c}
         IN  IF hit = {} THEN c ELSE (CHOOSE p \in hit : TRUE)[2]

\* strings.ToLower
ToLower(s) == [k \in 1..Len(s) |-> LowerChar(s[k])]

\* the runes of unicode.IsSpace from utf8.RuneSelf on: U+0085, U+00A0 and the
\* other runes with the property White_Space
SpaceRunes ==
    {
      "U+0085", "U+00A0", "U+1680", "U+2000", "U+2001", "U+2002",
      "U+2003", "U+2004", "U+2005", "U+2006", "U+2007", "U+2008", "U+2009",
      "U+200A", "U+2028", "U+2029", "U+202F", "U+205F", "U+3000" }

\* the white space that strings.TrimSpace trims
IsSpace(c) ==
    IF IsAscii(c) THEN c \in {" ", "\t", "\n", "U+000B", "\f", "\r"}
    ELSE c \in SpaceRunes

RECURSIVE TrimLeft(_)
TrimLeft(s) ==
    IF s # <<>> /\ IsSpace(Head(s)) THEN TrimLeft(Tail(s)) ELSE s

RECURSIVE TrimRight(_)
TrimRight(s) ==
    IF s # <<>> /\ IsSpace(s[Len(s)])
    THEN TrimRight(SubSeq(s, 1, Len(s) - 1))
    ELSE s

\* strings.TrimSpace
TrimSpace(s) == TrimRight(TrimLeft(s))

\* strings.HasPrefix
HasPrefix(s, p) == Len(p) <= Len(s) /\ SubSeq(s, 1, Len(p)) = p

\* strings.HasSuffix
HasSuffix(s, p) ==
    Len(p) <= Len(s) /\ SubSeq(s, Len(s) - Len(p) + 1, Len(s)) = p

\* strings.TrimSuffix
TrimSuffix(s, p) ==
    IF HasSuffix(s, p) THEN SubSeq(s, 1, Len(s) - Len(p)) ELSE s

\* strings.Index: the first position (from 1) where sub occurs in s, 0 if none
Index(s, sub) ==
    LET hits == {k \in 1..(Len(s) - Len(sub) + 1) :
                    SubSeq(s, k, k + Len(sub) - 1) = sub}
    IN  IF hits = {} THEN 0 ELSE CHOOSE k \in hits : \A j \in hits : k <= j

\* strings.Contains
Contains(s, sub) == Index(s, sub) # 0

\* strings.Split(s, sep) for a one-character separator: always at least one part
RECURSIVE Split(_, _)
Split(s, sep) ==
    LET k == Index(s, <<sep>>)
    IN  IF k = 0 THEN <<s>>
        ELSE <<SubSeq(s, 1, k - 1)>> \o Split(SubSeq(s, k + 1, Len(s)), sep)

\* strings.SplitN(s, sep, 2)
SplitN2(s, sep) ==
    LET k == Index(s, <<sep>>)
    IN  IF k = 0 THEN <<s>>
        ELSE <<SubSeq(s, 1, k - 1), SubSeq(s, k + 1, Len(s))>>

\* strings.Join(parts, sep)
RECURSIVE Join(_, _)
Join(parts, sep) ==
    IF parts = <<>> THEN <<>>
    ELSE IF Len(parts) = 1 THEN parts[1]
    ELSE parts[1] \o <<sep>> \o Join(Tail(parts), sep)

(***************************************************************************)
(* time.Parse for the layouts the program uses.  A layout is a sequence of  *)
(* chunks: "2006", "01", "02", "15", "04", "05", "Jan", "Z07:00", or a      *)
(* literal character.  A time is <<year, month, day, hour, minute, second,  *)
(* nanosecond, zone offset in seconds>>.                                    *)
(***************************************************************************)
DigitSet == {Digits[k] : k \in 1..10}

IsDigit(v, k) == k <= Len(v) /\ v[k] \in DigitSet

DigitVal(c) == (CHOOSE k \in 1..10 : Digits[k] = c) - 1

\* the number written by a sequence of digits
RECURSIVE Atoi(_)
Atoi(ds) ==
    IF ds = <<>> THEN 0
    ELSE Atoi(SubSeq(ds, 1, Len(ds) - 1)) * 10 + DigitVal(ds[Len(ds)])

\* the decimal digits of a natural number (fmt's %d)
RECURSIVE Itoa(_)
Itoa(n) ==
    IF n < 10 THEN <<Digits[n + 1]>>
    ELSE Itoa(n \div 10) \o <<Digits[(n % 10) + 1]>>

AllDigits(ds) == \A k \in 1..Len(ds) : ds[k] \in DigitSet

ShortMonthNames == << <<"J","a","n">>, <<"F","e","b">>, <<"M","a","r">>,
                      <<"A","p","r">>, <<"M","a","y">>, <<"J","u","n">>,
                      <<"J","u","l">>, <<"A","u","g">>, <<"S","e","p">>,
                      <<"O","c","t">>, <<"N","o","v">>, <<"D","e","c">> >>

IsLeap(y) == y % 4 = 0 /\ (y % 100 # 0 \/ y % 400 = 0)

\* time.daysIn
DaysIn(m, y) ==
    IF m = 2 THEN (IF IsLeap(y) THEN 29 ELSE 28)
    ELSE IF m \in {4, 6, 9, 11} THEN 30 ELSE 31

Pow10(n) == CASE n = 0 -> 1 [] n = 1 -> 10 [] n = 2 -> 100 [] n = 3 -> 1000
              [] n = 4 -> 10000 [] n = 5 -> 100000 [] n = 6 -> 1000000
              [] n = 7 -> 10000000 [] n = 8 -> 100000000 [] OTHER -> 1000000000

\* the length of the run of digits of v that starts at position k
RECURSIVE DigitRun(_, _)
DigitRun(v, k) == IF IsDigit(v, k) THEN 1 + DigitRun(v, k + 1) ELSE 0

\* time.parseNanoseconds: the digits after the period, cut to nine
ParseNanoseconds(ds) ==
    LET d9 == IF Len(ds) > 9 THEN SubSeq(ds, 1, 9) ELSE ds
    IN  Atoi(d9) * Pow10(9 - Len(d9))

ParseStart(value) ==
    [v |-> value, ok |-> TRUE, Y |-> 0, M |-> 1, D |-> 1,
     h |-> 0, mi |-> 0, s |-> 0, ns |-> 0, off |-> 0]

ParseFail(st) == [st EXCEPT !.ok = FALSE]

\* one chunk of the layout applied to the rest of the value (time.parse's switch)
ParseChunk(chunk, st) ==
    LET v == st.v
        rest(n) == SubSeq(v, n + 1, Len(v))
        two == Atoi(SubSeq(v, 1, 2))
    IN  CASE chunk = "2006" ->
                 IF Len(v) >= 4 /\ AllDigits(SubSeq(v, 1, 4))
                 THEN [st EXCEPT !.Y = Atoi(SubSeq(v, 1, 4)), !.v = rest(4)]
                 ELSE ParseFail(st)
          [] chunk = "01" ->
                 IF IsDigit(v, 1) /\ IsDigit(v, 2) /\ two >= 1 /\ two <= 12
                 THEN [st EXCEPT !.M = two, !.v = rest(2)]
                 ELSE ParseFail(st)
          [] chunk = "Jan" ->
                 IF Len(v) >= 3 /\ \E k \in 1..12 :
                        ToLower(ShortMonthNames[k]) = ToLower(SubSeq(v, 1, 3))
                 THEN [st EXCEPT
                         !.M = CHOOSE k \in 1..12 :
                            ToLower(ShortMonthNames[k]) = ToLower(SubSeq(v, 1, 3)),
                         !.v = rest(3)]
                 ELSE ParseFail(st)
          [] chunk = "02" ->
                 IF IsDigit(v, 1) /\ IsDigit(v, 2)
                 THEN [st EXCEPT !.D = two, !.v = rest(2)]
                 ELSE ParseFail(st)
          [] chunk = "15" ->
                 IF IsDigit(v, 1) /\ IsDigit(v, 2)
                 THEN IF two < 24 THEN [st EXCEPT !.h = two, !.v = rest(2)]
                      ELSE ParseFail(st)
                 ELSE IF IsDigit(v, 1)
                 THEN [st EXCEPT !.h = DigitVal(v[1]), !.v = rest(1)]
                 ELSE ParseFail(st)
          [] chunk = "04" ->
                 IF IsDigit(v, 1) /\ IsDigit(v, 2) /\ two < 60
                 THEN [st EXCEPT !.mi = two, !.v = rest(2)]
                 ELSE ParseFail(st)
          [] chunk = "05" ->
                 IF IsDigit(v, 1) /\ IsDigit(v, 2) /\ two < 60
                 THEN LET w == rest(2)
                      IN  IF Len(w) >= 2 /\ w[1] \in {".", ","} /\ IsDigit(w, 2)
                          THEN LET n == DigitRun(w, 2)
                               IN  [st EXCEPT
                                      !.s = two,
                                      !.ns = ParseNanoseconds(SubSeq(w, 2, n + 1)),
                                      !.v = SubSeq(w, n + 2, Len(w))]
                          ELSE [st EXCEPT !.s = two, !.v = w]
                 ELSE ParseFail(st)
          [] chunk = "Z07:00" ->
                 IF Len(v) >= 1 /\ v[1] = "Z"
                 THEN [st EXCEPT !.off = 0, !.v = rest(1)]
                 ELSE IF /\ Len(v) >= 6
                         /\ v[4] = ":"
                         /\ v[1] \in {"+", "-"}
                         /\ AllDigits(SubSeq(v, 2, 3))
                         /\ AllDigits(SubSeq(v, 5, 6))
                         /\ Atoi(SubSeq(v, 2, 3)) <= 24
                         /\ Atoi(SubSeq(v, 5, 6)) <= 60
                 THEN LET secs == (Atoi(SubSeq(v, 2, 3)) * 60
                                   + Atoi(SubSeq(v, 5, 6))) * 60
                      IN  [st EXCEPT
                             !.off = IF v[1] = "-" THEN 0 - secs ELSE secs,
                             !.v = rest(6)]
                 ELSE ParseFail(st)
          [] OTHER ->
                 IF Len(v) >= 1 /\ v[1] = chunk
                 THEN [st EXCEPT !.v = rest(1)]
                 ELSE ParseFail(st)

RECURSIVE ParseChunks(_, _)
ParseChunks(layout, st) ==
    IF ~st.ok \/ layout = <<>> THEN st
    ELSE ParseChunks(Tail(layout), ParseChunk(Head(layout), st))

NoTime == <<>>

\* time.Parse(layout, value): [ok, t]
TimeParse(layout, value) ==
    LET Parsed(st) ==
            IF st.ok /\ st.v = <<>> /\ st.D >= 1 /\ st.D <= DaysIn(st.M, st.Y)
            THEN [ok |-> TRUE,
                  t |-> <<st.Y, st.M, st.D, st.h, st.mi, st.s, st.ns, st.off>>]
            ELSE [ok |-> FALSE, t |-> NoTime]
    IN  Parsed(ParseChunks(layout, ParseStart(value)))

RFC3339 == <<"2006", "-", "01", "-", "02", "T", "15", ":", "04", ":", "05",
             "Z07:00">>

\* whoisDateFormats
whoisDateFormats ==
    << RFC3339,
       <<"2006", "-", "01", "-", "02", "T", "15", ":", "04", ":", "05", "Z">>,
       <<"2006", "-", "01", "-", "02">>,
       <<"02", "-", "Jan", "-", "2006">>,
       <<"2006", ".", "01", ".", "02">>,
       <<"02", "/", "01", "/", "2006">> >>

\* the days of year y before its month m
RECURSIVE DaysBeforeMonth(_, _)
DaysBeforeMonth(m, y) ==
    IF m = 1 THEN 0 ELSE DaysBeforeMonth(m - 1, y) + DaysIn(m - 1, y)

\* the days from 0001-01-01 to the day d of month m of year y
DaysSinceEpoch(y, m, d) ==
    365 * (y - 1) + ((y - 1) \div 4) - ((y - 1) \div 100) + ((y - 1) \div 400)
        + DaysBeforeMonth(m, y) + d - 1

\* time.Time.IsZero: the instant is 0001-01-01 00:00:00 UTC, in whatever zone
\* it is written (the wall clock and the zone offset are each at most a day
\* and an hour, so the date is at most two days before or one after)
IsZeroTime(t) ==
    \/ t = NoTime
    \/ LET days == DaysSinceEpoch(t[1], t[2], t[3])
       IN  /\ t[7] = 0
           /\ days \in -2..1
           /\ days * 86400 + (t[4] * 60 + t[5]) * 60 + t[6] - t[8] = 0

RECURSIVE ParseDateFrom(_, _)
ParseDateFrom(s, k) ==
    IF k > Len(whoisDateFormats) THEN NoTime
    ELSE LET r == TimeParse(whoisDateFormats[k], s)
         IN  IF r.ok THEN r.t ELSE ParseDateFrom(s, k + 1)

\* parseWhoisDate: the first format that parses, else the zero time
parseWhoisDate(s) == ParseDateFrom(TrimSpace(s), 1)

(***************************************************************************)
(* checker.go: Result                                                       *)
(***************************************************************************)
StatusRegistered == "registered"

StatusAvailable == "available"

StatusUnknown == "unknown"

\* a nil error, and the empty Err string of a Result
NoErr == [msg |-> "", arg |-> <<>>]

\* fmt.Errorf(msg, arg): msg is the constant text of the format, arg its operand
Errorf(m, a) == [msg |-> m, arg |-> a]

\* Result{}: the zero value
ZeroResult ==
    [Domain |-> <<>>, Status |-> "", Registrar |-> <<>>, Expiry |-> NoTime,
     Source |-> "", Err |-> NoErr]

\* Result{Domain: domain, Status: status}
MkResult(domain, status) ==
    [ZeroResult EXCEPT !.Domain = domain, !.Status = status]

(***************************************************************************)
(* whois.go                                                                 *)
(***************************************************************************)
\* whoisServers: TLD -> WHOIS server
whoisServers ==
    <<"a","c">> :> "whois.nic.ac"
    @@ <<"a","e">> :> "whois.aeda.net.ae"
    @@ <<"a","i">> :> "whois.nic.ai"
    @@ <<"a","p","p">> :> "whois.nic.google"
    @@ <<"a","u">> :> "whois.auda.org.au"
    @@ <<"b","i","z">> :> "whois.biz"
    @@ <<"c","a">> :> "whois.cira.ca"
    @@ <<"c","c">> :> "ccwhois.verisign-grs.com"
    @@ <<"c","n">> :> "whois.cnnic.cn"
    @@ <<"c","o">> :> "whois.nic.co"
    @@ <<"c","o","m">> :> "whois.verisign-grs.com"
    @@ <<"d","e">> :> "whois.denic.de"
    @@ <<"d","e","v">> :> "whois.nic.google"
    @@ <<"e","d","u">> :> "whois.educause.edu"
    @@ <<"f","r">> :> "whois.nic.fr"
    @@ <<"h","k">> :> "whois.hkirc.hk"
    @@ <<"i","n","f","o">> :> "whois.afilias.net"
    @@ <<"i","o">> :> "whois.nic.io"
    @@ <<"j","p">> :> "whois.jprs.jp"
    @@ <<"k","r">> :> "whois.kr"
    @@ <<"m","e">> :> "whois.nic.me"
    @@ <<"m","o","b","i">> :> "whois.dotmobiregistry.net"
    @@ <<"n","e","t">> :> "whois.verisign-grs.com"
    @@ <<"o","r","g">> :> "whois.pir.org"
    @@ <<"r","u">> :> "whois.tcinet.ru"
    @@ <<"s","h">> :> "whois.nic.sh"
    @@ <<"s","o">> :> "whois.nic.so"
    @@ <<"t","v">> :> "tvwhois.verisign-grs.com"
    @@ <<"u","k">> :> "whois.nic.uk"
    @@ <<"u","s">> :> "whois.nic.us"
    @@ <<"x","y","z">> :> "whois.nic.xyz"

\* notRegisteredMarkers (matched against the lowercased body)
notRegisteredMarkers ==
    << <<"n","o"," ","m","a","t","c","h"," ","f","o","r">>,
       <<"n","o","t"," ","f","o","u","n","d">>,
       <<"n","o"," ","e","n","t","r","i","e","s"," ","f","o","u","n","d">>,
       <<"n","o"," ","d","a","t","a"," ","f","o","u","n","d">>,
       <<"o","b","j","e","c","t"," ","d","o","e","s"," ","n","o","t"," ","e","x","i","s","t">>,
       <<"n","o"," ","o","b","j","e","c","t","s"," ","f","o","u","n","d">>,
       <<"d","o","m","a","i","n"," ","n","o","t"," ","f","o","u","n","d">>,
       <<"s","t","a","t","u","s",":"," ","f","r","e","e">>,
       <<"a","v","a","i","l","a","b","l","e"," ","f","o","r"," ","r","e","g","i","s","t","r","a","t","i","o","n">>,
       <<"t","h","i","s"," ","d","o","m","a","i","n"," ","n","a","m","e"," ","h","a","s"," ","n","o","t"," ","b","e","e","n"," ","r","e","g","i","s","t","e","r","e","d">> >>

\* registeredMarkers (matched against the lowercased body)
registeredMarkers ==
    << <<"d","o","m","a","i","n"," ","n","a","m","e",":">>,
       <<"r","e","g","i","s","t","r","a","r",":">>,
       <<"c","r","e","a","t","i","o","n"," ","d","a","t","e",":">>,
       <<"r","e","g","i","s","t","e","r","e","d"," ","o","n",":">>,
       <<"d","o","m","a","i","n"," ","s","t","a","t","u","s",":">>,
       <<"r","e","g","i","s","t","r","a","n","t",":">>,
       <<"r","e","g","i","s","t","r","y"," ","d","o","m","a","i","n"," ","i","d",":">>,
       <<"n","s","e","r","v","e","r",":">> >>

\* some marker of the list occurs in lower
AnyMarker(markers, lower) ==
    \E k \in 1..Len(markers) : Contains(lower, markers[k])

\* WHOISClient.server: [srv, err]
WhoisServer(domain) ==
    LET parts == Split(domain, ".")
        n == Len(parts)
        tld2 == Join(SubSeq(parts, n - 1, n), ".")
        tld == parts[n]
    IN  IF n < 2
        THEN [srv |-> "", err |-> Errorf("invalid domain", domain)]
        ELSE IF n >= 3 /\ tld2 \in DOMAIN whoisServers
        THEN [srv |-> whoisServers[tld2], err |-> NoErr]
        ELSE IF tld \in DOMAIN whoisServers
        THEN [srv |-> whoisServers[tld], err |-> NoErr]
        ELSE [srv |-> "", err |-> Errorf("no WHOIS server for TLD", tld)]

\* the first line of lines, from k on, that (trimmed, lowercased) starts with
\* lowerField: the trimmed text after its first colon; "" if there is none
RECURSIVE FieldFrom(_, _, _)
FieldFrom(lines, k, lowerField) ==
    IF k > Len(lines) THEN <<>>
    ELSE LET trimmed == TrimSpace(lines[k])
         IN  IF HasPrefix(ToLower(trimmed), lowerField)
                /\ Len(SplitN2(trimmed, ":")) = 2
             THEN TrimSpace(SplitN2(trimmed, ":")[2])
             ELSE FieldFrom(lines, k + 1, lowerField)

\* whoisField
whoisField(body, field) ==
    FieldFrom(Split(body, "\n"), 1, ToLower(field) \o <<":">>)

\* the expiry field names parseWHOIS tries, in order
ExpiryFields ==
    << <<"R","e","g","i","s","t","r","y"," ","E","x","p","i","r","y"," ","D","a","t","e">>,
       <<"E","x","p","i","r","y"," ","D","a","t","e">>,
       <<"E","x","p","i","r","a","t","i","o","n"," ","D","a","t","e">>,
       <<"p","a","i","d","-","t","i","l","l">> >>

\* the first expiry field whose value parses to a non-zero time; nil if none
RECURSIVE ExpiryFrom(_, _)
ExpiryFrom(body, k) ==
    IF k > Len(ExpiryFields) THEN NoTime
    ELSE LET t == parseWhoisDate(whoisField(body, ExpiryFields[k]))
         IN  IF ~IsZeroTime(t) THEN t ELSE ExpiryFrom(body, k + 1)

\* parseWHOIS with the two scans in the other order
parseWHOISRegisteredFirst(domain, body) ==
    LET lower == ToLower(body)
    IN  IF AnyMarker(registeredMarkers, lower)
        THEN [MkResult(domain, StatusRegistered) EXCEPT
                !.Registrar = whoisField(body, <<"R","e","g","i","s","t","r","a","r">>),
                !.Expiry = ExpiryFrom(body, 1)]
        ELSE IF AnyMarker(notRegisteredMarkers, lower)
        THEN MkResult(domain, StatusAvailable)
        ELSE MkResult(domain, StatusUnknown)

\* parseWHOIS
parseWHOIS(domain, body) ==
    LET lower == ToLower(body)
    IN  IF AnyMarker(notRegisteredMarkers, lower)
        THEN MkResult(domain, StatusAvailable)
        ELSE IF AnyMarker(registeredMarkers, lower)
        THEN [MkResult(domain, StatusRegistered) EXCEPT
                !.Registrar = whoisField(body, <<"R","e","g","i","s","t","r","a","r">>),
                !.Expiry = ExpiryFrom(body, 1)]
        ELSE MkResult(domain, StatusUnknown)

\* WHOISQuery that returns an unclassified body's Result with a nil error
WHOISQueryNoCheck(domain, net) ==
    LET s == WhoisServer(domain)
    IN  IF s.err # NoErr THEN [res |-> ZeroResult, err |-> s.err]
        ELSE IF net.kind # "body"
        THEN [res |-> ZeroResult,
              err |-> Errorf("connecting to WHOIS server failed", <<s.srv>>)]
        ELSE [res |-> parseWHOIS(domain, net.body), err |-> NoErr]

\* WHOISClient.Query against a server that behaves as net says: the dial, the
\* write or the read fails, or the whole body is read.  [res, err]
WHOISQuery(domain, net) ==
    LET s == WhoisServer(domain)
        result == parseWHOIS(domain, net.body)
    IN  IF s.err # NoErr THEN [res |-> ZeroResult, err |-> s.err]
        ELSE IF net.kind = "dialfail"
        THEN [res |-> ZeroResult,
              err |-> Errorf("connecting to WHOIS server failed", <<s.srv>>)]
        ELSE IF net.kind = "sendfail"
        THEN [res |-> ZeroResult,
              err |-> Errorf("sending WHOIS query failed", <<>>)]
        ELSE IF net.kind = "readfail"
        THEN [res |-> ZeroResult,
              err |-> Errorf("reading WHOIS response failed", <<>>)]
        ELSE IF result.Status = StatusUnknown
        THEN [res |-> result,
              err |-> Errorf("cannot parse WHOIS response", domain)]
        ELSE [res |-> result, err |-> NoErr]

(***************************************************************************)
(* rdap.go                                                                  *)
(***************************************************************************)
\* the map that NewRDAPClient makes: no keys
EmptyBootstrap == [k \in {} |-> <<>>]

\* c.bootstrap[strings.ToLower(tld)] = servers, for every tld of tlds from k on
RECURSIVE PutTlds(_, _, _, _)
PutTlds(bootstrap, tlds, servers, k) ==
    IF k > Len(tlds) THEN bootstrap
    ELSE PutTlds((ToLower(tlds[k]) :> servers) @@ bootstrap, tlds, servers, k + 1)

\* loadBootstrap's loop over bf.Services: a service with fewer than two lists
\* is skipped, a later service overwrites an earlier one's keys
RECURSIVE Populate(_, _, _)
Populate(bootstrap, services, k) ==
    IF k > Len(services) THEN bootstrap
    ELSE IF Len(services[k]) < 2 THEN Populate(bootstrap, services, k + 1)
    ELSE Populate(PutTlds(bootstrap, services[k][1], services[k][2], 1),
                  services, k + 1)

\* servers looking the last label up before the last two
RDAPServersSingleFirst(bootstrap, domain) ==
    LET parts == Split(domain, ".")
        n == Len(parts)
        tld2 == Join(SubSeq(parts, n - 1, n), ".")
        tld == parts[n]
    IN  IF n < 2
        THEN [srvs |-> <<>>, err |-> Errorf("invalid domain", domain)]
        ELSE IF tld \in DOMAIN bootstrap
        THEN [srvs |-> bootstrap[tld], err |-> NoErr]
        ELSE IF n >= 3 /\ tld2 \in DOMAIN bootstrap
        THEN [srvs |-> bootstrap[tld2], err |-> NoErr]
        ELSE [srvs |-> <<>>, err |-> Errorf("no RDAP server for TLD", tld)]

\* RDAPClient.servers after loadBootstrap: the split and the two look-ups of
\* the map.  [srvs, err]
RDAPServers(bootstrap, domain) ==
    LET parts == Split(domain, ".")
        n == Len(parts)
        tld2 == Join(SubSeq(parts, n - 1, n), ".")
        tld == parts[n]
    IN  IF n < 2
        THEN [srvs |-> <<>>, err |-> Errorf("invalid domain", domain)]
        ELSE IF n >= 3 /\ tld2 \in DOMAIN bootstrap
        THEN [srvs |-> bootstrap[tld2], err |-> NoErr]
        ELSE IF tld \in DOMAIN bootstrap
        THEN [srvs |-> bootstrap[tld], err |-> NoErr]
        ELSE [srvs |-> <<>>, err |-> Errorf("no RDAP server for TLD", tld)]

\* the URL that Query builds for one server
RDAPUrl(srv, domain) ==
    TrimSuffix(srv, <<"/">>) \o <<"/","d","o","m","a","i","n","/">> \o domain

\* decoded JSON values of the loosely typed vcardArray
JStr(s) == [t |-> "string", v |-> s]

JArr(a) == [t |-> "array", v |-> a]

JNull == [t |-> "null", v |-> <<>>]

IsArr(x) == x.t = "array"

IsStr(x) == x.t = "string"

\* extractVCardFN's loop: the first property from k on that is an array of at
\* least four elements, is named "fn" and has a string as its fourth element
RECURSIVE FnFrom(_, _)
FnFrom(props, k) ==
    IF k > Len(props) THEN <<>>
    ELSE LET prop == props[k]
         IN  IF /\ IsArr(prop)
                /\ Len(prop.v) >= 4
                /\ IsStr(prop.v[1])
                /\ prop.v[1].v = <<"f", "n">>
                /\ IsStr(prop.v[4])
             THEN prop.v[4].v
             ELSE FnFrom(props, k + 1)

\* extractVCardFN
extractVCardFN(vc) ==
    IF ~IsArr(vc) \/ Len(vc.v) < 2 THEN <<>>
    ELSE IF ~IsArr(vc.v[2]) THEN <<>>
    ELSE FnFrom(vc.v[2].v, 1)

\* the loop over d.Events storing the parsed time without testing the error
RECURSIVE ExpiryOfEventsNoErrCheck(_, _, _)
ExpiryOfEventsNoErrCheck(events, k, expiry) ==
    IF k > Len(events) THEN expiry
    ELSE LET p == TimeParse(RFC3339, events[k].Date)
         IN  ExpiryOfEventsNoErrCheck(events, k + 1,
                 IF events[k].Action = "expiration" THEN p.t ELSE expiry)

\* queryServer's loop over d.Events: every "expiration" event whose date parses
\* as RFC 3339 sets the expiry
RECURSIVE ExpiryOfEvents(_, _, _)
ExpiryOfEvents(events, k, expiry) ==
    IF k > Len(events) THEN expiry
    ELSE LET p == TimeParse(RFC3339, events[k].Date)
         IN  ExpiryOfEvents(events, k + 1,
                 IF events[k].Action = "expiration" /\ p.ok THEN p.t ELSE expiry)

HasRole(entity, role) == \E r \in 1..Len(entity.Roles) : entity.Roles[r] = role

\* queryServer's loop over d.Entities: every entity with the role "registrar"
\* sets the registrar (the break leaves the loop over the roles only)
RECURSIVE RegistrarOfEntities(_, _, _)
RegistrarOfEntities(entities, k, registrar) ==
    IF k > Len(entities) THEN registrar
    ELSE RegistrarOfEntities(entities, k + 1,
             IF HasRole(entities[k], "registrar")
             THEN extractVCardFN(entities[k].VCardArray)
             ELSE registrar)

\* queryServer with the two status constants exchanged
queryServerSwapped(url, domain, resp) ==
    IF resp.kind = "neterr"
    THEN [res |-> ZeroResult, err |-> Errorf("http get failed", url)]
    ELSE IF resp.code = 404
    THEN [res |-> MkResult(domain, StatusRegistered), err |-> NoErr]
    ELSE IF resp.code # 200
    THEN [res |-> ZeroResult, err |-> Errorf("HTTP status", Itoa(resp.code))]
    ELSE [res |-> MkResult(domain, StatusAvailable), err |-> NoErr]

\* RDAPClient.queryServer on the endpoint's answer resp:
\*   kind "neterr": http.Get fails;  kind "http": a response with status code,
\*   whose body can be read (readOk) and decoded (json.ok) or not.  [res, err]
queryServer(url, domain, resp) ==
    IF resp.kind = "neterr"
    THEN [res |-> ZeroResult, err |-> Errorf("http get failed", url)]
    ELSE IF resp.code = 404
    THEN [res |-> MkResult(domain, StatusAvailable), err |-> NoErr]
    ELSE IF resp.code # 200
    THEN [res |-> ZeroResult, err |-> Errorf("HTTP status", Itoa(resp.code))]
    ELSE IF ~resp.readOk
    THEN [res |-> ZeroResult, err |-> Errorf("reading RDAP response failed", url)]
    ELSE IF ~resp.json.ok
    THEN [res |-> ZeroResult, err |-> Errorf("parsing RDAP response failed", url)]
    ELSE [res |-> [MkResult(domain, StatusRegistered) EXCEPT
                     !.Expiry = ExpiryOfEvents(resp.json.Events, 1, NoTime),
                     !.Registrar =
                         RegistrarOfEntities(resp.json.Entities, 1, <<>>)],
          err |-> NoErr]

\* Query's loop giving up at the first server that fails
RECURSIVE QueryFromFailFast(_, _, _, _, _)
QueryFromFailFast(servers, domain, resps, k, asked) ==
    IF k > Len(servers)
    THEN [res |-> ZeroResult,
          err |-> Errorf("all RDAP servers failed", domain),
          asked |-> asked, code |-> 0]
    ELSE LET url == RDAPUrl(servers[k], domain)
             r == queryServer(url, domain, resps[k])
         IN  IF r.err = NoErr
             THEN [res |-> r.res, err |-> NoErr, asked |-> Append(asked, url),
                   code |-> resps[k].code]
             ELSE [res |-> ZeroResult,
                   err |-> Errorf("all RDAP servers failed", domain),
                   asked |-> Append(asked, url), code |-> 0]

\* RDAPClient.Query's loop from server k on; resps[k] is what server k answers
\* if it is asked.  [res, err, asked, code]: asked lists the URLs requested, in
\* order; code is the HTTP status of the answer that ended the loop
RECURSIVE QueryFrom(_, _, _, _, _)
QueryFrom(servers, domain, resps, k, asked) ==
    IF k > Len(servers)
    THEN [res |-> ZeroResult,
          err |-> Errorf("all RDAP servers failed", domain),
          asked |-> asked, code |-> 0]
    ELSE LET url == RDAPUrl(servers[k], domain)
             r == queryServer(url, domain, resps[k])
         IN  IF r.err = NoErr
             THEN [res |-> r.res, err |-> NoErr, asked |-> Append(asked, url),
                   code |-> resps[k].code]
             ELSE QueryFrom(servers, domain, resps, k + 1, Append(asked, url))

\* RDAPClient.Query once servers() has answered
RDAPQueryServers(servers, domain, resps) ==
    QueryFrom(servers, domain, resps, 1, <<>>)

(***************************************************************************)
(* The inputs and the environment of the batch                              *)
(***************************************************************************)
\* the longest batch of domains
MaxDomains == 2

\* the largest value of the -c flag
MaxConcurrency == 2

\* the domains a batch is made of: a capital E with an acute accent and ".Io"
\* between a form feed and a no-break space (RDAP and WHOIS servers known,
\* needs trimming and lowercasing),
\* "b.zz" (no server anywhere) and "x" (one label: not a domain)
RawDomains ==
    { <<"\f","U+00C9",".","I","o","U+00A0">>,
      <<"b",".","z","z">>,
      <<"x">> }

\* the "services" of the bootstrap document that data.iana.org answers with
BootstrapServices ==
    << << <<<<"I","O">>>>, <<<<"r","1","/">>, <<"r","2">>>> >>,
       << <<<<"z","z">>>> >>,
       << <<<<"c","o",".","u","k">>>>, <<<<"r","3">>>> >> >>

\* how a bootstrap fetch can end: http.Get fails, io.ReadAll fails,
\* json.Unmarshal fails, or the document is decoded
FetchOutcomes == {"neterr", "readerr", "parseerr", "ok"}

\* a decoded RDAP domain object
RDAPBody ==
    [ok |-> TRUE,
     Events |-> << [Action |-> "expiration",
                    Date |-> <<"2","0","2","6","-","0","8","-","1","3","T","0","0",":","0","0",":","0","0","Z">>] >>,
     Entities |-> << [Roles |-> <<"registrar">>,
                      VCardArray |->
                          JArr(<< JStr(<<"v","c","a","r","d">>),
                                  JArr(<< JArr(<< JStr(<<"f", "n">>), JNull,
                                                  JStr(<<"t","e","x","t">>),
                                                  JStr(<<"I","A","N","A">>) >>) >>) >>)] >>]

\* a body that json.Unmarshal rejects
BadJSON == [ok |-> FALSE, Events |-> <<>>, Entities |-> <<>>]

HttpResp(code, readOk, json) ==
    [kind |-> "http", code |-> code, readOk |-> readOk, json |-> json]

\* http.Get fails
NetErr == [kind |-> "neterr", code |-> 0, readOk |-> FALSE, json |-> BadJSON]

\* what an RDAP endpoint can answer: no connection, 404, another status, a
\* body that cannot be read, a body that cannot be decoded, a domain object
RDAPResponses ==
    { NetErr,
      HttpResp(404, TRUE, BadJSON),
      HttpResp(500, TRUE, BadJSON),
      HttpResp(200, FALSE, RDAPBody),
      HttpResp(200, TRUE, BadJSON),
      HttpResp(200, TRUE, RDAPBody) }

WhoisBody(b) == [kind |-> "body", body |-> b]

\* what a WHOIS server can do: the dial fails, the write of the query fails,
\* the read fails (the deadline passes), or a body arrives
WhoisNets ==
    { [kind |-> "dialfail", body |-> <<>>],
      [kind |-> "sendfail", body |-> <<>>],
      [kind |-> "readfail", body |-> <<>>],
      WhoisBody(<<"N","o"," ","m","a","t","c","h"," ","f","o","r"," ","A",".","I","O","\n">>),
      WhoisBody(<<"R","e","g","i","s","t","r","a","r",":"," ","E","x","\n","E","x","p","i","r","y"," ","D","a","t","e",":"," ","2","0","2","7","-","0","1","-","0","2","\n">>),
      WhoisBody(<<"b","u","s","y">>) }

\* all sequences over S of length at most n
RECURSIVE SeqsUpTo(_, _)
SeqsUpTo(S, n) ==
    IF n = 0 THEN {<<>>}
    ELSE LET shorter == SeqsUpTo(S, n - 1)
         IN  shorter \cup {Append(q, x) : q \in shorter, x \in S}

(***************************************************************************)
(* The state: queryAll's locals, the goroutines, and the one RDAPClient of  *)
(* the Checker they share                                                   *)
(***************************************************************************)
VARIABLES
    domains,      \* queryAll's argument
    concurrency,  \* queryAll's argument: the capacity of sem
    pcMain,       \* "spawn": in the for loop or in wg.Wait, "returned"
    spawned,      \* how many goroutines the loop has started
    wg,           \* the WaitGroup's counter
    sem,          \* how many tokens the channel sem holds
    results,      \* the results slice
    returned,     \* what queryAll returned
    task,         \* the goroutines: where each is, and its locals
    muWriter,     \* c.mu: the goroutine holding the write lock, 0 if none
    muReaders,    \* c.mu: the goroutines holding a read lock
    loaded,       \* c.loaded
    bootstrap,    \* c.bootstrap
    fetches,      \* history: a "started", "failed" or "ok" per bootstrap fetch
    writes,       \* history: writes[i] lists the goroutines that wrote results[i]
    arg,          \* the argument of a function applied on its own (no batch)
    out           \* and what the function returned

vars == <<domains, concurrency, pcMain, spawned, wg, sem, results, returned,
          task, muWriter, muReaders, loaded, bootstrap, fetches, writes,
          arg, out>>

\* unused while a batch runs
pureVars == <<arg, out>>

Tasks == 1..Len(domains)

\* a goroutine before it is started.  Beside Check's and Query's locals
\* (domain, srvs, k: the turn of Query's loop over srvs, result) it keeps
\* what the claims speak of: rdap ("none", "ok", "fail"): how
\* the structured query ended; code: the HTTP status of the endpoint that
\* decided it; whois: the WHOIS client was called; werr: the error it returned
IdleTask ==
    [pc |-> "idle", domain |-> <<>>, srvs |-> <<>>, k |-> 0, rdap |-> "none",
     code |-> 0, whois |-> FALSE, werr |-> NoErr, result |-> ZeroResult]

Init ==
    /\ domains \in SeqsUpTo(RawDomains, MaxDomains)
    /\ concurrency \in 0..MaxConcurrency
    /\ pcMain = "spawn"
    /\ spawned = 0
    /\ wg = 0
    /\ sem = 0
    /\ results = [i \in 1..Len(domains) |-> ZeroResult]
    /\ returned = <<>>
    /\ task = [i \in 1..Len(domains) |-> IdleTask]
    /\ muWriter = 0
    /\ muReaders = {}
    /\ loaded = FALSE
    /\ bootstrap = EmptyBootstrap
    /\ fetches = <<>>
    /\ writes = [i \in 1..Len(domains) |-> <<>>]
    /\ arg = <<>>
    /\ out = <<>>

mainVars == <<domains, concurrency, pcMain, spawned, wg, results, returned>>

rdapVars == <<muWriter, muReaders, loaded, bootstrap, fetches>>

(***************************************************************************)
(* main.go: queryAll                                                        *)
(***************************************************************************)
\* one turn of the for loop: wg.Add(1) and the go statement
Spawn ==
    /\ pcMain = "spawn"
    /\ spawned < Len(domains)
    /\ spawned' = spawned + 1
    /\ wg' = wg + 1
    /\ task' = [task EXCEPT ![spawned + 1].pc = "acquire"]
    /\ UNCHANGED <<domains, concurrency, pcMain, sem, results, returned,
                   writes>>
    /\ UNCHANGED rdapVars
    /\ UNCHANGED pureVars

\* after the loop: wg.Wait returns when the counter is zero, and queryAll
\* returns results
Return ==
    /\ pcMain = "spawn"
    /\ spawned = Len(domains)
    /\ wg = 0
    /\ pcMain' = "returned"
    /\ returned' = results
    /\ UNCHANGED <<domains, concurrency, spawned, wg, sem, results, task,
                   writes>>
    /\ UNCHANGED rdapVars
    /\ UNCHANGED pureVars

\* Acquire admitting one goroutine more than sem has room for
AcquireOffByOne(i) ==
    /\ task[i].pc = "acquire"
    /\ sem <= concurrency
    /\ sem' = sem + 1
    /\ task' = [task EXCEPT ![i].pc = "lock",
                            ![i].domain = ToLower(TrimSpace(domains[i]))]
    /\ UNCHANGED <<writes>>
    /\ UNCHANGED mainVars
    /\ UNCHANGED rdapVars
    /\ UNCHANGED pureVars

\* Acquire with the domain passed to the clients as it was given
AcquireRaw(i) ==
    /\ task[i].pc = "acquire"
    /\ sem < concurrency
    /\ sem' = sem + 1
    /\ task' = [task EXCEPT ![i].pc = "lock", ![i].domain = domains[i]]
    /\ UNCHANGED <<writes>>
    /\ UNCHANGED mainVars
    /\ UNCHANGED rdapVars
    /\ UNCHANGED pureVars

\* Acquire that never blocks
AcquireNoGate(i) ==
    /\ task[i].pc = "acquire"
    /\ sem' = sem + 1
    /\ task' = [task EXCEPT ![i].pc = "lock",
                            ![i].domain = ToLower(TrimSpace(domains[i]))]
    /\ UNCHANGED <<writes>>
    /\ UNCHANGED mainVars
    /\ UNCHANGED rdapVars
    /\ UNCHANGED pureVars

\* sem <- struct{}{}: blocks while the channel is full.  Then Check begins:
\* the domain is trimmed and lowercased
Acquire(i) ==
    /\ task[i].pc = "acquire"
    /\ sem < concurrency
    /\ sem' = sem + 1
    /\ task' = [task EXCEPT ![i].pc = "lock",
                            ![i].domain = ToLower(TrimSpace(domains[i]))]
    /\ UNCHANGED <<writes>>
    /\ UNCHANGED mainVars
    /\ UNCHANGED rdapVars
    /\ UNCHANGED pureVars

(***************************************************************************)
(* rdap.go: RDAPClient.Query, reached from Checker.Check                    *)
(***************************************************************************)
\* the structured query of goroutine i fails with err: Check drops err and
\* goes on to WHOIS
RdapFailed(i, err) ==
    [task EXCEPT ![i].pc = "whois", ![i].rdap = "fail", ![i].srvs = <<>>,
                 ![i].k = 0]

\* Lock returning although c.mu is held
LockNoWait(i) ==
    /\ task[i].pc = "lock"
    /\ muWriter' = i
    /\ task' = [task EXCEPT ![i].pc = "locked"]
    /\ UNCHANGED <<muReaders, loaded, bootstrap, fetches, sem, writes>>
    /\ UNCHANGED mainVars
    /\ UNCHANGED pureVars

\* loadBootstrap: c.mu.Lock() returns once no reader and no writer holds c.mu
Lock(i) ==
    /\ task[i].pc = "lock"
    /\ muWriter = 0
    /\ muReaders = {}
    /\ muWriter' = i
    /\ task' = [task EXCEPT ![i].pc = "locked"]
    /\ UNCHANGED <<muReaders, loaded, bootstrap, fetches, sem, writes>>
    /\ UNCHANGED mainVars
    /\ UNCHANGED pureVars

\* loadBootstrap under the lock, c.loaded set: return nil (and unlock)
AlreadyLoaded(i) ==
    /\ task[i].pc = "locked"
    /\ loaded
    /\ muWriter' = 0
    /\ task' = [task EXCEPT ![i].pc = "servers"]
    /\ UNCHANGED <<muReaders, loaded, bootstrap, fetches, sem, writes>>
    /\ UNCHANGED mainVars
    /\ UNCHANGED pureVars

\* FetchStart without the test of c.loaded
FetchStartAlways(i) ==
    /\ task[i].pc = "locked"
    /\ fetches' = Append(fetches, "started")
    /\ task' = [task EXCEPT ![i].pc = "fetching"]
    /\ UNCHANGED <<muWriter, muReaders, loaded, bootstrap, sem, writes>>
    /\ UNCHANGED mainVars
    /\ UNCHANGED pureVars

\* loadBootstrap under the lock, c.loaded not set: the GET is sent
FetchStart(i) ==
    /\ task[i].pc = "locked"
    /\ ~loaded
    /\ fetches' = Append(fetches, "started")
    /\ task' = [task EXCEPT ![i].pc = "fetching"]
    /\ UNCHANGED <<muWriter, muReaders, loaded, bootstrap, sem, writes>>
    /\ UNCHANGED mainVars
    /\ UNCHANGED pureVars

\* LoadBootstrapEnd setting c.loaded whatever the outcome
LoadBootstrapEndMarksLoaded(i, outcome) ==
    IF outcome = "ok"
    THEN /\ bootstrap' = Populate(bootstrap, BootstrapServices, 1)
         /\ loaded' = TRUE
         /\ task' = [task EXCEPT ![i].pc = "servers"]
    ELSE /\ UNCHANGED bootstrap
         /\ loaded' = TRUE
         /\ task' = RdapFailed(i,
                IF outcome = "neterr"
                THEN Errorf("fetching RDAP bootstrap failed", <<>>)
                ELSE IF outcome = "readerr"
                THEN Errorf("read failed", <<>>)
                ELSE Errorf("parsing bootstrap JSON failed", <<>>))

\* the rest of loadBootstrap for a fetch that ends as outcome says, the
\* deferred Unlock included
LoadBootstrapEnd(i, outcome) ==
    IF outcome = "ok"
    THEN /\ bootstrap' = Populate(bootstrap, BootstrapServices, 1)
         /\ loaded' = TRUE
         /\ task' = [task EXCEPT ![i].pc = "servers"]
    ELSE /\ UNCHANGED <<bootstrap, loaded>>
         /\ task' = RdapFailed(i,
                IF outcome = "neterr"
                THEN Errorf("fetching RDAP bootstrap failed", <<>>)
                ELSE IF outcome = "readerr"
                THEN Errorf("read failed", <<>>)
                ELSE Errorf("parsing bootstrap JSON failed", <<>>))

\* loadBootstrap returns for a fetch that ends as outcome says: the history
\* of the fetches, and the deferred Unlock
FetchEnds(i, outcome) ==
    /\ LoadBootstrapEnd(i, outcome)
    /\ fetches' = [fetches EXCEPT ![Len(fetches)] =
                      IF outcome = "ok" THEN "ok" ELSE "failed"]
    /\ muWriter' = 0
    /\ UNCHANGED <<muReaders, sem, writes>>
    /\ UNCHANGED mainVars
    /\ UNCHANGED pureVars

\* c.http.Get returns: with an error, which loadBootstrap returns, or with a
\* response whose body is still to be read
FetchHeaders(i) ==
    /\ task[i].pc = "fetching"
    /\ \/ FetchEnds(i, "neterr")
       \/ /\ task' = [task EXCEPT ![i].pc = "reading"]
          /\ UNCHANGED <<sem, writes>>
          /\ UNCHANGED mainVars
          /\ UNCHANGED rdapVars
          /\ UNCHANGED pureVars

\* io.ReadAll(resp.Body) returns, and the rest of loadBootstrap runs:
\* json.Unmarshal, the loop over the services, c.loaded = true
FetchDone(i) ==
    /\ task[i].pc = "reading"
    /\ \E outcome \in FetchOutcomes \ {"neterr"} : FetchEnds(i, outcome)

\* servers: the domain has fewer than two labels
ServersInvalid(i) ==
    /\ task[i].pc = "servers"
    /\ Len(Split(task[i].domain, ".")) < 2
    /\ task' = RdapFailed(i, RDAPServers(bootstrap, task[i].domain).err)
    /\ UNCHANGED <<sem, writes>>
    /\ UNCHANGED mainVars
    /\ UNCHANGED rdapVars
    /\ UNCHANGED pureVars

\* servers: c.mu.RLock() returns once no writer holds c.mu
RLock(i) ==
    /\ task[i].pc = "servers"
    /\ Len(Split(task[i].domain, ".")) >= 2
    /\ muWriter = 0
    /\ muReaders' = muReaders \cup {i}
    /\ task' = [task EXCEPT ![i].pc = "rlocked"]
    /\ UNCHANGED <<muWriter, loaded, bootstrap, fetches, sem, writes>>
    /\ UNCHANGED mainVars
    /\ UNCHANGED pureVars

\* Query's loop at its turn k over servers: the GET of server k is sent, or
\* the loop is over and Query returns its error
QueryLoop(i, servers, k) ==
    IF k <= Len(servers)
    THEN [task EXCEPT ![i].pc = "endpoints", ![i].srvs = servers, ![i].k = k]
    ELSE RdapFailed(i, Errorf("all RDAP servers failed", task[i].domain))

\* Lookup recording a TLD it did not find in c.bootstrap
LookupCachesMiss(i) ==
    /\ task[i].pc = "rlocked"
    /\ LET r == RDAPServers(bootstrap, task[i].domain)
       IN  /\ task' = IF r.err = NoErr
                      THEN QueryLoop(i, r.srvs, 1)
                      ELSE RdapFailed(i, r.err)
           /\ bootstrap' = IF r.err = NoErr THEN bootstrap
                           ELSE (r.err.arg :> <<>>) @@ bootstrap
    /\ muReaders' = muReaders \ {i}
    /\ UNCHANGED <<muWriter, loaded, fetches, sem, writes>>
    /\ UNCHANGED mainVars
    /\ UNCHANGED pureVars

\* servers: the look-ups under the read lock, and the deferred RUnlock
Lookup(i) ==
    /\ task[i].pc = "rlocked"
    /\ LET r == RDAPServers(bootstrap, task[i].domain)
       IN  task' = IF r.err = NoErr
                   THEN QueryLoop(i, r.srvs, 1)
                   ELSE RdapFailed(i, r.err)
    /\ muReaders' = muReaders \ {i}
    /\ UNCHANGED <<muWriter, loaded, bootstrap, fetches, sem, writes>>
    /\ UNCHANGED mainVars
    /\ UNCHANGED pureVars

\* RdapAnswered with the return after a successful query missing: Check
\* falls through to the WHOIS query
RdapAnsweredFallThrough(i, res, code) ==
    [task EXCEPT ![i].pc = "whois", ![i].rdap = "ok", ![i].srvs = <<>>,
                 ![i].k = 0, ![i].code = code,
                 ![i].result = [res EXCEPT !.Source = "rdap"]]

\* queryServer returned res without an error for an answer of status code:
\* Query returns it, Check stamps the source and returns
RdapAnswered(i, res, code) ==
    [task EXCEPT ![i].pc = "store", ![i].rdap = "ok", ![i].srvs = <<>>,
                 ![i].k = 0, ![i].code = code,
                 ![i].result = [res EXCEPT !.Source = "rdap"]]

\* the URL of the turn that goroutine i's Query is in
TurnUrl(i) == RDAPUrl(task[i].srvs[task[i].k], task[i].domain)

\* queryServer returned r for the answer resp: Query returns, or its loop
\* goes on to the next server
QueryTurnEnds(i, r, resp) ==
    IF r.err = NoErr
    THEN RdapAnswered(i, r.res, resp.code)
    ELSE QueryLoop(i, task[i].srvs, task[i].k + 1)

\* c.http.Get(url) returns for the server of this turn: with an error or a
\* status that ends queryServer, or with a 200 whose body is still to be read
QueryGet(i) ==
    /\ task[i].pc = "endpoints"
    /\ \E resp \in RDAPResponses :
          task' = IF resp.kind = "http" /\ resp.code = 200
                  THEN [task EXCEPT ![i].pc = "body"]
                  ELSE QueryTurnEnds(i,
                           queryServer(TurnUrl(i), task[i].domain, resp), resp)
    /\ UNCHANGED <<sem, writes>>
    /\ UNCHANGED mainVars
    /\ UNCHANGED rdapVars
    /\ UNCHANGED pureVars

\* io.ReadAll(resp.Body) returns for a 200, and the rest of queryServer runs
QueryRead(i) ==
    /\ task[i].pc = "body"
    /\ \E resp \in {x \in RDAPResponses : x.kind = "http" /\ x.code = 200} :
          task' = QueryTurnEnds(i,
                      queryServer(TurnUrl(i), task[i].domain, resp), resp)
    /\ UNCHANGED <<sem, writes>>
    /\ UNCHANGED mainVars
    /\ UNCHANGED rdapVars
    /\ UNCHANGED pureVars

(***************************************************************************)
(* checker.go: the rest of Checker.Check                                    *)
(***************************************************************************)
\* CheckWhois without the test of err
CheckWhoisNoTest(domain, w) == [w.res EXCEPT !.Source = "whois"]

\* what Check returns after c.whois.Query answered w
CheckWhois(domain, w) ==
    IF w.err # NoErr
    THEN [MkResult(domain, StatusUnknown) EXCEPT !.Err = w.err]
    ELSE [w.res EXCEPT !.Source = "whois"]

\* c.whois.Query returned w: Check returns
WhoisAnswered(i, w) ==
    [task EXCEPT ![i].pc = "store",
                 ![i].whois = TRUE,
                 ![i].werr = w.err,
                 ![i].result = CheckWhois(task[i].domain, w)]

\* the WHOIS query of a domain whose structured query failed, up to the
\* return of net.DialTimeout: no server is known, the dial fails, or the
\* connection is there
WhoisDial(i) ==
    /\ task[i].pc = "whois"
    /\ \E net \in WhoisNets :
          task' = IF WhoisServer(task[i].domain).err = NoErr
                     /\ net.kind # "dialfail"
                  THEN [task EXCEPT ![i].pc = "connected", ![i].whois = TRUE]
                  ELSE WhoisAnswered(i, WHOISQuery(task[i].domain, net))
    /\ UNCHANGED <<sem, writes>>
    /\ UNCHANGED mainVars
    /\ UNCHANGED rdapVars
    /\ UNCHANGED pureVars

\* fmt.Fprintf(conn, ...) returns: the write failed, or the query is sent
WhoisSend(i) ==
    /\ task[i].pc = "connected"
    /\ \E net \in {x \in WhoisNets : x.kind # "dialfail"} :
          task' = IF net.kind = "sendfail"
                  THEN WhoisAnswered(i, WHOISQuery(task[i].domain, net))
                  ELSE [task EXCEPT ![i].pc = "sent"]
    /\ UNCHANGED <<sem, writes>>
    /\ UNCHANGED mainVars
    /\ UNCHANGED rdapVars
    /\ UNCHANGED pureVars

\* io.ReadAll(conn) returns: the read failed, or the server has closed the
\* connection and the body is parsed
WhoisRead(i) ==
    /\ task[i].pc = "sent"
    /\ \E net \in {x \in WhoisNets : x.kind \in {"readfail", "body"}} :
          task' = WhoisAnswered(i, WHOISQuery(task[i].domain, net))
    /\ UNCHANGED <<sem, writes>>
    /\ UNCHANGED mainVars
    /\ UNCHANGED rdapVars
    /\ UNCHANGED pureVars

(***************************************************************************)
(* main.go: the end of the goroutine                                        *)
(***************************************************************************)
\* Store with the loop's variable i shared by the goroutines: the slot is the
\* one of the goroutine started last
StoreLoopVar(i) ==
    /\ task[i].pc = "store"
    /\ results' = [results EXCEPT ![spawned] = task[i].result]
    /\ writes' = [writes EXCEPT ![spawned] = Append(@, i)]
    /\ task' = [task EXCEPT ![i] = [IdleTask EXCEPT !.pc = "release"]]
    /\ UNCHANGED <<domains, concurrency, pcMain, spawned, wg, returned, sem>>
    /\ UNCHANGED rdapVars
    /\ UNCHANGED pureVars

\* results[i] = checker.Check(domain); Check's locals are gone
Store(i) ==
    /\ task[i].pc = "store"
    /\ results' = [results EXCEPT ![i] = task[i].result]
    /\ writes' = [writes EXCEPT ![i] = Append(@, i)]
    /\ task' = [task EXCEPT ![i] = [IdleTask EXCEPT !.pc = "release"]]
    /\ UNCHANGED <<domains, concurrency, pcMain, spawned, wg, returned, sem>>
    /\ UNCHANGED rdapVars
    /\ UNCHANGED pureVars

\* the receive from sem skipped when the goroutine's query failed
ReleaseUnlessFailed(i) ==
    /\ task[i].pc = "release"
    /\ sem > 0
    /\ sem' = IF results[i].Status = StatusUnknown THEN sem ELSE sem - 1
    /\ task' = [task EXCEPT ![i].pc = "wgdone"]
    /\ UNCHANGED <<writes>>
    /\ UNCHANGED mainVars
    /\ UNCHANGED rdapVars
    /\ UNCHANGED pureVars

\* the deferred <-sem
Release(i) ==
    /\ task[i].pc = "release"
    /\ sem > 0
    /\ sem' = sem - 1
    /\ task' = [task EXCEPT ![i].pc = "wgdone"]
    /\ UNCHANGED <<writes>>
    /\ UNCHANGED mainVars
    /\ UNCHANGED rdapVars
    /\ UNCHANGED pureVars

\* the deferred wg.Done()
WgDone(i) ==
    /\ task[i].pc = "wgdone"
    /\ wg' = wg - 1
    /\ task' = [task EXCEPT ![i].pc = "done"]
    /\ UNCHANGED <<domains, concurrency, pcMain, spawned, results, returned,
                   sem, writes>>
    /\ UNCHANGED rdapVars
    /\ UNCHANGED pureVars

Next ==
    \/ Spawn
    \/ Return
    \/ \E i \in Tasks : Acquire(i)
    \/ \E i \in Tasks : Lock(i)
    \/ \E i \in Tasks : AlreadyLoaded(i)
    \/ \E i \in Tasks : FetchStart(i)
    \/ \E i \in Tasks : FetchHeaders(i)
    \/ \E i \in Tasks : FetchDone(i)
    \/ \E i \in Tasks : ServersInvalid(i)
    \/ \E i \in Tasks : RLock(i)
    \/ \E i \in Tasks : Lookup(i)
    \/ \E i \in Tasks : QueryGet(i)
    \/ \E i \in Tasks : QueryRead(i)
    \/ \E i \in Tasks : WhoisDial(i)
    \/ \E i \in Tasks : WhoisSend(i)
    \/ \E i \in Tasks : WhoisRead(i)
    \/ \E i \in Tasks : Store(i)
    \/ \E i \in Tasks : Release(i)
    \/ \E i \in Tasks : WgDone(i)

Spec == Init /\ [][Next]_vars

\* the steps of main, and the steps of goroutine i
MainStep == Spawn \/ Return

TaskStep(i) ==
    /\ i \in Tasks
    /\ \/ Acquire(i) \/ Lock(i) \/ AlreadyLoaded(i) \/ FetchStart(i)
       \/ FetchHeaders(i) \/ FetchDone(i) \/ ServersInvalid(i) \/ RLock(i)
       \/ Lookup(i) \/ QueryGet(i) \/ QueryRead(i) \/ WhoisDial(i)
       \/ WhoisSend(i) \/ WhoisRead(i) \/ Store(i) \/ Release(i) \/ WgDone(i)

\* the batch under Go's scheduler, which runs every goroutine that can run,
\* and with network calls that end (the clients' timeout)
FairSpec ==
    /\ Spec
    /\ WF_vars(MainStep)
    /\ \A i \in 1..MaxDomains : WF_vars(TaskStep(i))

(***************************************************************************)
(* whois.go: parseWHOIS applied on its own to bodies made of known lines    *)
(***************************************************************************)
\* the most lines a body has
MaxLines == 2

\* the lines the bodies are made of
WhoisLines ==
    << <<"N","o"," ","m","a","t","c","h"," ","f","o","r"," ","A",".","I","O">>,
       <<"N","O","T"," ","F","O","U","N","D">>,
       <<"R","e","g","i","s","t","r","a","r",":"," ","E","x"," ","I","n","c",".">>,
       <<" "," ","R","E","G","I","S","T","R","A","R",":"," "," ","A","b","c"," ">>,
       <<"S","p","o","n","s","o","r","i","n","g"," ","R","e","g","i","s","t","r","a","r",":"," ","Z","e","d">>,
       <<"D","o","m","a","i","n"," ","S","t","a","t","u","s",":"," ","o","k">>,
       <<"h","e","l","l","o">>,
       <<"r","e","g","i","s","t","r","a","r",":">>,
       <<"E","x","p","i","r","y"," ","D","a","t","e",":"," ","2","0","2","7","-","0","1","-","0","2">> >>

\* a body is given by the numbers of its lines
ParseInit ==
    /\ domains = <<>>
    /\ concurrency = 0
    /\ pcMain = "spawn"
    /\ spawned = 0
    /\ wg = 0
    /\ sem = 0
    /\ results = <<>>
    /\ returned = <<>>
    /\ task = <<>>
    /\ muWriter = 0
    /\ muReaders = {}
    /\ loaded = FALSE
    /\ bootstrap = EmptyBootstrap
    /\ fetches = <<>>
    /\ writes = <<>>
    /\ arg \in SeqsUpTo(1..Len(WhoisLines), MaxLines)
    /\ out = <<>>

\* the body whose lines are numbered ls
BodyOf(ls) == Join([k \in 1..Len(ls) |-> WhoisLines[ls[k]]], "\n")

\* the domain the bodies are about
ParseDomain == <<"a",".","i","o">>

\* result := parseWHOIS(domain, string(body))
ApplyParseWHOIS ==
    /\ out = <<>>
    /\ out' = <<parseWHOIS(ParseDomain, BodyOf(arg))>>
    /\ UNCHANGED <<domains, concurrency, pcMain, spawned, wg, sem, results,
                   returned, task, muWriter, muReaders, loaded, bootstrap,
                   fetches, writes, arg>>

ParseNext == ApplyParseWHOIS

ParseSpec == ParseInit /\ [][ParseNext]_vars

(***************************************************************************)
(* rdap.go: Query's loop applied on its own to lists of servers             *)
(***************************************************************************)

\* the batch is not running
NoBatch ==
    /\ domains = <<>>
    /\ concurrency = 0
    /\ pcMain = "spawn"
    /\ spawned = 0
    /\ wg = 0
    /\ sem = 0
    /\ results = <<>>
    /\ returned = <<>>
    /\ task = <<>>
    /\ muWriter = 0
    /\ muReaders = {}
    /\ loaded = FALSE
    /\ bootstrap = EmptyBootstrap
    /\ fetches = <<>>
    /\ writes = <<>>

batchVars ==
    <<domains, concurrency, pcMain, spawned, wg, sem, results, returned, task,
      muWriter, muReaders, loaded, bootstrap, fetches, writes>>

MaxServers == 3

\* base URLs as the bootstrap document lists them, with and without the slash
QueryServerSet == { <<"r","1","/">>, <<"r","2">> }

\* what a server can answer: no connection, 404, another status, a body that
\* cannot be read, a body that cannot be decoded, a domain object
QueryResponses ==
    { NetErr,
      HttpResp(404, TRUE, BadJSON),
      HttpResp(500, TRUE, BadJSON),
      HttpResp(200, FALSE, RDAPBody),
      HttpResp(200, TRUE, BadJSON),
      HttpResp(200, TRUE, RDAPBody) }

QueryDomain == <<"a",".","i","o">>

QueryInit ==
    /\ NoBatch
    /\ arg \in UNION { { [servers |-> s, resps |-> r] :
                           r \in [1..Len(s) -> QueryResponses] } :
                       s \in SeqsUpTo(QueryServerSet, MaxServers) }
    /\ out = <<>>

\* c.Query(domain) from the loop on
ApplyQuery ==
    /\ out = <<>>
    /\ out' = <<RDAPQueryServers(arg.servers, QueryDomain, arg.resps)>>
    /\ UNCHANGED <<batchVars, arg>>

QueryNext == ApplyQuery

QuerySpec == QueryInit /\ [][QueryNext]_vars

(***************************************************************************)
(* rdap.go: queryServer applied on its own to decoded domain objects        *)
(***************************************************************************)

MaxEvents == 2

MaxEntities == 2

\* a name card whose only property is the display name fn
VCard(fn) ==
    JArr(<< JStr(<<"v","c","a","r","d">>),
            JArr(<< JArr(<< JStr(<<"f","n">>), JNull, JStr(<<"t","e","x","t">>), JStr(fn) >>) >>) >>)

\* events a domain object can list: two expirations with RFC 3339 dates, an
\* expiration with a date only, a registration, an action in another case
ServerEvents ==
    << [Action |-> "expiration", Date |-> <<"2","0","2","6","-","0","8","-","1","3","T","0","0",":","0","0",":","0","0","Z">>],
       [Action |-> "expiration", Date |-> <<"2","0","2","7","-","0","1","-","0","2","T","0","3",":","0","4",":","0","5","+","0","8",":","0","0">>],
       [Action |-> "expiration", Date |-> <<"2","0","2","6","-","0","8","-","1","3">>],
       [Action |-> "registration", Date |-> <<"2","0","2","0","-","0","1","-","0","1","T","0","0",":","0","0",":","0","0","Z">>],
       [Action |-> "Expiration", Date |-> <<"2","0","3","0","-","0","1","-","0","1","T","0","0",":","0","0",":","0","0","Z">>] >>

\* entities a domain object can list: two registrars, a registrant, a
\* registrar without a name card
ServerEntities ==
    << [Roles |-> <<"registrar">>, VCardArray |-> VCard(<<"I","A","N","A">>)],
       [Roles |-> <<"technical", "registrar">>, VCardArray |-> VCard(<<"B","e","t","a">>)],
       [Roles |-> <<"registrant">>, VCardArray |-> VCard(<<"C","a","r","l">>)],
       [Roles |-> <<"registrar">>, VCardArray |-> JNull] >>

\* the domain object whose events and entities are numbered es and ns
DomainObject(es, ns) ==
    [ok |-> TRUE,
     Events |-> [k \in 1..Len(es) |-> ServerEvents[es[k]]],
     Entities |-> [k \in 1..Len(ns) |-> ServerEntities[ns[k]]]]

ServerUrl == <<"r","2","/","d","o","m","a","i","n","/","a",".","i","o">>

ServerInit ==
    /\ NoBatch
    /\ arg \in [events : SeqsUpTo(1..Len(ServerEvents), MaxEvents),
                entities : SeqsUpTo(1..Len(ServerEntities), MaxEntities)]
    /\ out = <<>>

\* c.queryServer(url, domain) when the server answers 200 with the object
ApplyQueryServer ==
    /\ out = <<>>
    /\ out' = <<queryServer(ServerUrl, QueryDomain,
                    HttpResp(200, TRUE, DomainObject(arg.events, arg.entities)))>>
    /\ UNCHANGED <<batchVars, arg>>

ServerNext == ApplyQueryServer

ServerSpec == ServerInit /\ [][ServerNext]_vars

(***************************************************************************)
(* rdap.go, whois.go: the two server look-ups applied to dotted names       *)
(***************************************************************************)

MaxLabels == 3

\* the labels a name is made of, the empty label included
LabelText ==
    ("a" :> <<"a">>) @@ ("co" :> <<"c","o">>) @@ ("uk" :> <<"u","k">>) @@ ("io" :> <<"i","o">>)
    @@ ("zz" :> <<"z","z">>) @@ ("" :> <<>>)

\* the name whose labels are ls
NameOf(ls) == Join([k \in 1..Len(ls) |-> LabelText[ls[k]]], ".")

\* a bootstrap document with a TLD and a two-label suffix under it
LookupServices ==
    << << << <<"I","O">> >>, << <<"r","1","/">>, <<"r","2">> >> >>,
       << << <<"u","k">> >>, << <<"r","4">> >> >>,
       << << <<"C","O",".","U","K">> >>, << <<"r","3">> >> >> >>

LookupBootstrap == Populate(EmptyBootstrap, LookupServices, 1)

LookupInit ==
    /\ NoBatch
    /\ arg \in SeqsUpTo(DOMAIN LabelText, MaxLabels) \ {<<>>}
    /\ out = <<>>

\* c.servers(domain) on the loaded map and c.server(domain)
ApplyLookup ==
    /\ out = <<>>
    /\ out' = << [rdap |-> RDAPServers(LookupBootstrap, NameOf(arg)),
                  whois |-> WhoisServer(NameOf(arg))] >>
    /\ UNCHANGED <<batchVars, arg>>

LookupNext == ApplyLookup

LookupSpec == LookupInit /\ [][LookupNext]_vars

(***************************************************************************)
(* Properties of the batch                                                  *)
(***************************************************************************)
\* the domains of RawDomains as Check must normalise them
Normalized(raw) ==
    CASE raw = <<"\f","U+00C9",".","I","o","U+00A0">> -> <<"U+00E9",".","i","o">>
      [] raw = <<"b",".","z","z">> -> <<"b",".","z","z">>
      [] raw = <<"x">> -> <<"x">>

\* goroutine i holds a token of sem: it is inside Check, or between Check's
\* return and the deferred receive
InFlight(i) ==
    task[i].pc \in {"lock", "locked", "fetching", "reading", "servers",
                    "rlocked", "endpoints", "body", "whois", "connected",
                    "sent", "store", "release"}

\* goroutine i is past results[i] = ...
Stored(i) == task[i].pc \in {"release", "wgdone", "done"}

\* C1: what queryAll returns is as long as the input, and its i-th Result is
\* about the trimmed, lowercased i-th domain, whatever the order in which the
\* goroutines ran and finished.
C1_OrderPreserved ==
    pcMain = "returned" =>
        /\ Len(returned) = Len(domains)
        /\ \A i \in 1..Len(domains) :
              returned[i].Domain = Normalized(domains[i])

\* a batch of two different domains has been answered
C1_Witness ==
    /\ pcMain = "returned"
    /\ domains = <<<<"\f","U+00C9",".","I","o","U+00A0">>, <<"b",".","z","z">>>>
    /\ returned[1].Domain = <<"U+00E9",".","i","o">>
    /\ returned[2].Domain = <<"b",".","z","z">>

\* C2: never more goroutines hold a token of sem, and so never more Check
\* calls run, than concurrency.
C2_Ceiling ==
    Cardinality({i \in Tasks : InFlight(i)}) <= concurrency

\* one goroutine runs Check and a second waits for the only token
C2_Witness ==
    /\ concurrency = 1
    /\ \E i, j \in Tasks :
          /\ task[i].pc = "fetching"
          /\ task[j].pc = "acquire"

\* C3 as claimed: the goroutines sharing the RDAPClient start at most one
\* bootstrap fetch, however the fetches end.
C3_AtMostOneFetch == Len(fetches) <= 1

\* C3 amended: every bootstrap fetch but the last one started has failed; so
\* at most one fetch succeeds, none starts after a success, and two are never
\* under way together.
C3_OneSuccessfulFetch ==
    \A k \in 1..(Len(fetches) - 1) : fetches[k] = "failed"

\* two queries have passed loadBootstrap, and the one fetch succeeded
C3_Witness ==
    /\ fetches = <<"ok">>
    /\ \E i, j \in Tasks :
          /\ i # j
          /\ task[i].pc = "store" /\ task[i].rdap = "ok"
          /\ task[j].pc = "store" /\ task[j].rdap = "ok"

\* the Results that Check has returned: those not yet stored, and those stored
CheckResults ==
    {task[i].result : i \in {j \in Tasks : task[j].pc = "store"}}
    \cup {results[i] : i \in {j \in Tasks : Stored(j)}}

\* C4: in every Result of Check, Err is set exactly when Status is unknown and
\* Source is unset exactly when Status is unknown; a WHOIS body that matches no
\* marker never gives a Result with Source whois.
C4_ErrAndSource ==
    /\ \A r \in CheckResults :
          /\ r.Status \in {StatusRegistered, StatusAvailable, StatusUnknown}
          /\ (r.Err # NoErr) <=> (r.Status = StatusUnknown)
          /\ (r.Source = "") <=> (r.Status = StatusUnknown)
          /\ r.Err # NoErr => r.Err.msg # ""
    /\ \A i \in Tasks :
          task[i].pc = "store"
          /\ task[i].werr.msg = "cannot parse WHOIS response"
          => task[i].result.Source # "whois"

\* Check has returned for a WHOIS body that matches no marker
C4_Witness ==
    \E i \in Tasks :
        /\ task[i].pc = "store"
        /\ task[i].werr.msg = "cannot parse WHOIS response"
        /\ task[i].result.Status = StatusUnknown
        /\ task[i].result.Source = ""

\* the constant texts of the errors that WHOISClient.Query returns
WhoisErrorTexts ==
    {"invalid domain", "no WHOIS server for TLD",
     "connecting to WHOIS server failed", "sending WHOIS query failed",
     "reading WHOIS response failed", "cannot parse WHOIS response"}

\* C5: Check returns a Result in every case; when the structured query and
\* the WHOIS query both fail, it is the Result of status unknown whose Err is
\* the WHOIS client's error and nothing else is set: the structured client's
\* error is not in it.
C5_TotalFailure ==
    \A i \in Tasks :
        task[i].pc = "store" =>
            /\ task[i].result.Status \in
                   {StatusRegistered, StatusAvailable, StatusUnknown}
            /\ task[i].rdap = "fail" /\ task[i].werr # NoErr =>
                   /\ task[i].result =
                          [Domain |-> task[i].domain, Status |-> StatusUnknown,
                           Registrar |-> <<>>, Expiry |-> NoTime,
                           Source |-> "", Err |-> task[i].werr]
                   /\ task[i].werr.msg \in WhoisErrorTexts

\* both clients failed for a domain whose TLD no server is known for
C5_Witness ==
    \E i \in Tasks :
        /\ task[i].pc = "store"
        /\ task[i].rdap = "fail"
        /\ task[i].werr.msg = "no WHOIS server for TLD"
        /\ task[i].result.Status = StatusUnknown

\* C6: Check asks the structured client first and the WHOIS client only after
\* the structured query has failed; a successful structured query gives
\* Source rdap without any WHOIS query, a failed one followed by a successful
\* WHOIS query gives Source whois.
C6_RdapFirst ==
    \A i \in Tasks :
        /\ task[i].whois => task[i].rdap = "fail"
        /\ task[i].pc = "whois" => task[i].rdap = "fail"
        /\ task[i].pc = "store" =>
              /\ task[i].rdap \in {"ok", "fail"}
              /\ task[i].rdap = "ok" =>
                    task[i].result.Source = "rdap" /\ ~task[i].whois
              /\ task[i].rdap = "fail" =>
                    /\ task[i].whois
                    /\ task[i].werr = NoErr => task[i].result.Source = "whois"

\* one Check answered by RDAP, another by WHOIS after RDAP failed
C6_Witness ==
    \E i, j \in Tasks :
        /\ task[i].pc = "store" /\ task[i].result.Source = "rdap"
        /\ task[j].pc = "store" /\ task[j].result.Source = "whois"

\* slot i has been written exactly when goroutine i is past its assignment,
\* and then by goroutine i alone; at the return every slot has been written
SlotsInv ==
    /\ \A i \in Tasks : writes[i] = IF Stored(i) THEN <<i>> ELSE <<>>
    /\ pcMain = "returned" => \A i \in Tasks : writes[i] = <<i>>

\* a step changes slot i only if goroutine i makes it, the slot was never
\* written before, and the new value is what goroutine i's Check returned
SlotsStep ==
    \A i \in Tasks :
        results'[i] # results[i] =>
            /\ task[i].pc = "store"
            /\ results'[i] = task[i].result
            /\ writes[i] = <<>>

\* C7: each slot of results is written once, by the goroutine that was started
\* with its index: never by another one, never twice, and by the time queryAll
\* returns every slot has been written with what its goroutine's Check returned.
C7_Slots == []SlotsInv /\ [][SlotsStep]_vars

\* the second slot is written while the first goroutine is still in Check
C7_Witness ==
    /\ Len(domains) = 2
    /\ writes = <<<<>>, <<2>>>>
    /\ task[1].pc = "whois"
    /\ results[2].Status = StatusAvailable

\* the liveness half of C8 where the gate lets a goroutine in
ReturnsWithOpenGate ==
    (concurrency >= 1 \/ domains = <<>>) => <>(pcMain = "returned")

\* the safety half of C8: at the return every goroutine has ended, its slot
\* written and its token given back
AllDoneAtReturn ==
    pcMain = "returned" =>
        /\ \A i \in Tasks : task[i].pc = "done" /\ writes[i] = <<i>>
        /\ sem = 0
        /\ returned = results

\* C8: queryAll waits for all goroutines and then returns: with a scheduler
\* that is fair and Checks that end it returns in the end, and when it does
\* every goroutine has written its slot and ended.
C8_WaitsThenReturns == <>(pcMain = "returned") /\ []AllDoneAtReturn

(***************************************************************************)
(* Properties of parseWHOIS                                                 *)
(***************************************************************************)
\* the ASCII letters
UpperLetters == <<"A","B","C","D","E","F","G","H","I","J","K","L","M",
                  "N","O","P","Q","R","S","T","U","V","W","X","Y","Z">>

LowerLetters == <<"a","b","c","d","e","f","g","h","i","j","k","l","m",
                  "n","o","p","q","r","s","t","u","v","w","x","y","z">>

\* strings.ToUpper on ASCII text
ToUpper(s) ==
    [k \in 1..Len(s) |->
        IF \E j \in 1..26 : LowerLetters[j] = s[k]
        THEN UpperLetters[CHOOSE j \in 1..26 : LowerLetters[j] = s[k]]
        ELSE s[k]]

\* the lines of WhoisLines that hold a not-registered marker
NotRegisteredLines == {1, 2}

\* the lines of WhoisLines that hold a registered marker
RegisteredLines == {3, 4, 5, 6, 8}

\* the lines of WhoisLines that begin with the label Registrar:, whatever the
\* case and the white space around, and the registrar each gives
RegistrarOfLine ==
    (3 :> <<"E","x"," ","I","n","c",".">>) @@ (4 :> <<"A","b","c">>) @@ (8 :> <<>>)

\* the registrar given by the first line of ls that begins with the label
RECURSIVE FirstRegistrar(_)
FirstRegistrar(ls) ==
    IF ls = <<>> THEN <<>>
    ELSE IF Head(ls) \in DOMAIN RegistrarOfLine THEN RegistrarOfLine[Head(ls)]
    ELSE FirstRegistrar(Tail(ls))

HasLine(ls, S) == \E k \in 1..Len(ls) : ls[k] \in S

\* C9: parseWHOIS answers available if a not-registered marker occurs, even
\* beside registered markers; else registered if a registered marker occurs,
\* with the registrar of the first line that begins with Registrar: (in any
\* case, white space around the line aside); else unknown.  The status is the
\* same for the body in upper case and in lower case.
C9_Priority ==
    out # <<>> =>
        LET r == out[1]
            expected ==
                IF HasLine(arg, NotRegisteredLines) THEN StatusAvailable
                ELSE IF HasLine(arg, RegisteredLines) THEN StatusRegistered
                ELSE StatusUnknown
        IN  /\ r.Status = expected
            /\ r.Domain = ParseDomain
            /\ r.Status = StatusRegistered => r.Registrar = FirstRegistrar(arg)
            /\ r.Status # StatusRegistered =>
                  r.Registrar = <<>> /\ r.Expiry = NoTime
            /\ parseWHOIS(ParseDomain, ToUpper(BodyOf(arg))).Status = expected
            /\ parseWHOIS(ParseDomain, ToLower(BodyOf(arg))).Status = expected

\* a body with a registrar line before a not-registered marker is available
C9_Witness ==
    /\ arg = <<3, 2>>
    /\ out # <<>>
    /\ out[1].Status = StatusAvailable

\* C10: when the endpoint that decides the structured query answers 404, Check
\* returns status available, source rdap, and neither registrar nor expiry.
C10_NotFoundIsAvailable ==
    \A i \in Tasks :
        task[i].pc = "store" /\ task[i].code = 404 =>
            task[i].result =
                [Domain |-> task[i].domain, Status |-> StatusAvailable,
                 Registrar |-> <<>>, Expiry |-> NoTime, Source |-> "rdap",
                 Err |-> NoErr]

\* an endpoint answered 404
C10_Witness ==
    \E i \in Tasks :
        /\ task[i].pc = "store"
        /\ task[i].code = 404
        /\ task[i].result.Status = StatusAvailable

(***************************************************************************)
(* Properties of the RDAP query                                             *)
(***************************************************************************)

\* an answer that ends Query's loop: 404, or 200 with a body that decodes
Decisive(resp) ==
    /\ resp.kind = "http"
    /\ \/ resp.code = 404
       \/ resp.code = 200 /\ resp.readOk /\ resp.json.ok

\* the position of the first decisive answer, 0 when there is none
FirstDecisive(resps) ==
    IF \E k \in 1..Len(resps) : Decisive(resps[k])
    THEN CHOOSE k \in 1..Len(resps) :
             /\ Decisive(resps[k])
             /\ \A j \in 1..(k - 1) : ~Decisive(resps[j])
    ELSE 0

\* the URL requested from each base URL for QueryDomain
QueryUrls ==
    (<<"r","1","/">> :> <<"r","1","/","d","o","m","a","i","n","/","a",".","i","o">>) @@ (<<"r","2">> :> <<"r","2","/","d","o","m","a","i","n","/","a",".","i","o">>)

\* C11: Query asks the servers in list order and stops at the first decisive
\* one (404, or 200 with a body that decodes): the Result is that server's, no
\* server after it is asked, every server before it was asked and failed; when
\* no server is decisive, or the list is empty, all were asked and Query returns
\* the all-servers-failed error.
C11_FirstDecisiveWins ==
    out # <<>> =>
        LET r == out[1]
            d == FirstDecisive(arg.resps)
            n == Len(arg.servers)
        IN  IF d = 0
            THEN /\ r.err = Errorf("all RDAP servers failed", QueryDomain)
                 /\ r.res = ZeroResult
                 /\ r.asked = [k \in 1..n |-> QueryUrls[arg.servers[k]]]
            ELSE /\ r.err = NoErr
                 /\ r.asked = [k \in 1..d |-> QueryUrls[arg.servers[k]]]
                 /\ r.res.Domain = QueryDomain
                 /\ r.res.Status = IF arg.resps[d].code = 404
                                   THEN StatusAvailable ELSE StatusRegistered
                 /\ r.res = queryServer(QueryUrls[arg.servers[d]], QueryDomain,
                                        arg.resps[d]).res
                 /\ \A j \in 1..(d - 1) :
                        queryServer(QueryUrls[arg.servers[j]], QueryDomain,
                                    arg.resps[j]).err # NoErr

\* the first server fails, the second decides, the third is never asked
C11_Witness ==
    /\ out # <<>>
    /\ Len(arg.servers) = 3
    /\ arg.resps[1].code = 500
    /\ arg.resps[2].code = 404
    /\ Len(out[1].asked) = 2
    /\ out[1].res.Status = StatusAvailable

\* the entities of ServerEntities with the role registrar, and their names
RegistrarEntities == {1, 2, 4}

EntityNames == (1 :> <<"I","A","N","A">>) @@ (2 :> <<"B","e","t","a">>) @@ (3 :> <<"C","a","r","l">>) @@ (4 :> <<>>)

\* the name of the first entity of ns that is a registrar, "" without one
FirstRegistrarEntity(ns) ==
    IF \E k \in 1..Len(ns) : ns[k] \in RegistrarEntities
    THEN EntityNames[ns[CHOOSE k \in 1..Len(ns) :
                            /\ ns[k] \in RegistrarEntities
                            /\ \A j \in 1..(k - 1) : ns[j] \notin RegistrarEntities]]
    ELSE <<>>

\* C12: for a 200 answer the registrar of the Result is the name of the first
\* entity, in list order, whose roles include "registrar"; later entities,
\* later registrars included, do not change it.
C12_FirstRegistrarEntity ==
    out # <<>> => out[1].res.Registrar = FirstRegistrarEntity(arg.entities)

\* the parseable expiration events of ServerEvents, and their instants
ExpirationEvents == {1, 2}

EventTimes ==
    (1 :> <<2026, 8, 13, 0, 0, 0, 0, 0>>) @@ (2 :> <<2027, 1, 2, 3, 4, 5, 0, 28800>>)

\* the instant of the last parseable expiration event of es, nil without one
LastExpiration(es) ==
    IF \E k \in 1..Len(es) : es[k] \in ExpirationEvents
    THEN EventTimes[es[CHOOSE k \in 1..Len(es) :
                           /\ es[k] \in ExpirationEvents
                           /\ \A j \in (k + 1)..Len(es) : es[j] \notin ExpirationEvents]]
    ELSE NoTime

\* C13: for a 200 answer whose events hold an "expiration" entry with an RFC
\* 3339 date D the expiry of the Result is D exactly (of the last such entry
\* when there are several); an expiration entry whose date does not parse
\* leaves the expiry unset, or as an earlier entry set it, and the query still
\* succeeds with status registered.
C13_ExpiryOfEvent ==
    out # <<>> =>
        /\ out[1].err = NoErr
        /\ out[1].res.Status = StatusRegistered
        /\ out[1].res.Expiry = LastExpiration(arg.events)
        /\ Cardinality({arg.events[k] : k \in 1..Len(arg.events)}
                           \cap ExpirationEvents) = 1 =>
               \E k \in 1..Len(arg.events) :
                   /\ arg.events[k] \in ExpirationEvents
                   /\ out[1].res.Expiry = EventTimes[arg.events[k]]

\* a parseable expiration followed by one whose date does not parse
C13_Witness ==
    /\ out # <<>>
    /\ arg.events = <<2, 3>>
    /\ out[1].res.Expiry = <<2027, 1, 2, 3, 4, 5, 0, 28800>>
    /\ out[1].err = NoErr

(***************************************************************************)
(* Properties of the bootstrap cache                                        *)
(***************************************************************************)

\* some fetch of the bootstrap document has succeeded
FetchSucceeded == \E k \in 1..Len(fetches) : fetches[k] = "ok"

\* c.loaded is set exactly when a fetch has succeeded, the map is empty until
\* then, and a caller that holds the lock with c.loaded unset can only fetch
LoadedInv ==
    /\ loaded <=> FetchSucceeded
    /\ ~loaded => bootstrap = EmptyBootstrap
    /\ \A i \in Tasks :
           task[i].pc = "locked" /\ ~loaded =>
               ENABLED FetchStart(i) /\ ~ENABLED AlreadyLoaded(i)

\* a fetch that fails changes neither c.loaded nor c.bootstrap and fails the
\* caller's query; after a successful fetch none is started
LoadedStep ==
    /\ \A i \in Tasks :
           /\ task[i].pc \in {"fetching", "reading"}
           /\ task'[i].pc \notin {"fetching", "reading"}
           /\ fetches'[Len(fetches')] = "failed"
           => /\ ~loaded'
              /\ bootstrap' = bootstrap
              /\ task'[i].rdap = "fail"
    /\ FetchSucceeded => fetches' = fetches

\* C14: a bootstrap fetch that fails is returned to the caller as an error and
\* leaves loaded unset and the map unchanged, so the next loadBootstrap call
\* fetches again; once a fetch has succeeded no later call fetches.
C14_FailedFetchRetried == []LoadedInv /\ [][LoadedStep]_vars

\* a fetch has failed and the next caller's fetch has succeeded
C14_Witness ==
    /\ fetches = <<"failed", "ok">>
    /\ loaded

\* C15: once loaded is set it stays set and the bootstrap map is never modified
\* again, whatever the interleaving of later queries.
C15_LoadedIsStable == [][loaded => loaded' /\ bootstrap' = bootstrap]_vars

\* loadBootstrap is called again, and holds the lock, after the map was loaded
C15_Witness ==
    /\ loaded
    /\ bootstrap = Populate(EmptyBootstrap, BootstrapServices, 1)
    /\ \E i \in Tasks : task[i].pc = "locked"

\* the goroutines inside loadBootstrap's locked section
InLoadSection ==
    {i \in Tasks : task[i].pc \in {"locked", "fetching", "reading"}}

\* the goroutines inside servers' read-locked section
InReadSection == {i \in Tasks : task[i].pc = "rlocked"}

\* C16: at most one goroutine is inside loadBootstrap's check-fetch-populate-
\* mark section, so at most one fetch is in flight, and no goroutine reads the
\* map in servers while another is inside that section; several goroutines can
\* be inside the read section together.
C16_PopulateExclusive ==
    /\ Cardinality(InLoadSection) <= 1
    /\ Cardinality({k \in 1..Len(fetches) : fetches[k] = "started"}) <= 1
    /\ InLoadSection # {} => InReadSection = {}
    /\ InLoadSection = IF muWriter = 0 THEN {} ELSE {muWriter}
    /\ InReadSection = muReaders

\* two goroutines read the loaded map at the same time
C16_Witness ==
    /\ loaded
    /\ Cardinality(InReadSection) >= 2

(***************************************************************************)
(* Properties of the server look-ups                                        *)
(***************************************************************************)

\* the keys of LookupBootstrap, as label lists, and their servers
RdapKeys ==
    (<<"io">> :> << <<"r","1","/">>, <<"r","2">> >>) @@ (<<"uk">> :> << <<"r","4">> >>)
    @@ (<<"co", "uk">> :> << <<"r","3">> >>)

\* the keys of whoisServers that the labels can spell, and their servers
WhoisKeys ==
    (<<"io">> :> "whois.nic.io") @@ (<<"uk">> :> "whois.nic.uk")
    @@ (<<"co">> :> "whois.nic.co")

\* the key the two-tier rule finds for the labels ls in a table with the keys
\* keys: <<"invalid">> under two labels, the last two labels if the name has
\* three or more and they are a key, else the last label, <<"none">> otherwise
TwoTier(keys, ls) ==
    LET n == Len(ls)
    IN  IF n < 2 THEN <<"invalid">>
        ELSE IF n >= 3 /\ SubSeq(ls, n - 1, n) \in keys THEN SubSeq(ls, n - 1, n)
        ELSE IF <<ls[n]>> \in keys THEN <<ls[n]>>
        ELSE <<"none">>

\* C17: RDAPClient.servers and WHOISClient.server follow the same two-tier
\* rule: a name of fewer than two labels is rejected as invalid; for a name of
\* three or more labels the last two labels are looked up first and win if
\* present; otherwise the last label is looked up; if neither is present the
\* look-up fails with a not-found error.
C17_TwoTierLookup ==
    out # <<>> =>
        LET r == TwoTier(DOMAIN RdapKeys, arg)
            w == TwoTier(DOMAIN WhoisKeys, arg)
            tld == LabelText[arg[Len(arg)]]
        IN  /\ out[1].rdap =
                  IF r = <<"invalid">>
                  THEN [srvs |-> <<>>, err |-> Errorf("invalid domain", NameOf(arg))]
                  ELSE IF r = <<"none">>
                  THEN [srvs |-> <<>>, err |-> Errorf("no RDAP server for TLD", tld)]
                  ELSE [srvs |-> RdapKeys[r], err |-> NoErr]
            /\ out[1].whois =
                  IF w = <<"invalid">>
                  THEN [srv |-> "", err |-> Errorf("invalid domain", NameOf(arg))]
                  ELSE IF w = <<"none">>
                  THEN [srv |-> "", err |-> Errorf("no WHOIS server for TLD", tld)]
                  ELSE [srv |-> WhoisKeys[w], err |-> NoErr]
            /\ (r = <<"invalid">>) <=> (w = <<"invalid">>)

\* a name under co.uk: the two-label key wins where the table has it
C17_Witness ==
    /\ out # <<>>
    /\ arg = <<"a", "co", "uk">>
    /\ out[1].rdap.srvs = << <<"r","3">> >>
    /\ out[1].whois.srv = "whois.nic.uk"

(***************************************************************************)
(* Properties of failing and of blocked batches                             *)
(***************************************************************************)

\* goroutine i has stored a Result with status unknown
Failed(i) == i \in Tasks /\ Stored(i) /\ results[i].Status = StatusUnknown

\* the tokens of sem are exactly those of the goroutines that hold one
TokensInv == sem = Cardinality({i \in Tasks : InFlight(i)})

\* a goroutine's step changes no other goroutine's state and no other slot,
\* and the deferred receive gives the token back whatever was stored
IsolatedStep ==
    \A i \in Tasks :
        /\ task'[i] # task[i] =>
               \A j \in Tasks \ {i} :
                   task'[j] = task[j] /\ results'[j] = results[j]
        /\ task[i].pc = "release" /\ task'[i].pc = "wgdone" => sem' = sem - 1

\* once a goroutine has failed, every goroutine of the batch still finishes
FailureLeadsToDone ==
    \A i \in 1..MaxDomains :
        Failed(i) ~> (\A j \in Tasks : task[j].pc = "done")

\* C18: a goroutine whose query fails (status unknown) still releases its
\* token and writes only its own slot, so every other goroutine is eventually
\* admitted and completes with its own Result; a failure never reduces the
\* number of tokens available.
C18_FailureIsLocal == []TokensInv /\ [][IsolatedStep]_vars /\ FailureLeadsToDone

\* with one token, a goroutine is admitted after another one failed
C18_Witness ==
    /\ concurrency = 1
    /\ \E i \in Tasks, j \in Tasks :
           /\ Failed(i)
           /\ task[i].pc = "done"
           /\ task[j].pc = "lock"

\* C19: with concurrency 0 and a batch that is not empty no goroutine ever
\* gets a token, no Check starts, no slot is written and queryAll never
\* returns: every goroutine stays at its send on sem and the dispatcher in
\* its loop or at wg.Wait.
C19_ZeroConcurrencyBlocks ==
    concurrency = 0 /\ domains # <<>> =>
        /\ sem = 0
        /\ \A i \in Tasks :
               /\ task[i].pc \in {"idle", "acquire"}
               /\ writes[i] = <<>>
               /\ results[i] = ZeroResult
        /\ fetches = <<>>
        /\ pcMain # "returned"
        /\ returned = <<>>
        /\ spawned = Len(domains) => wg = Len(domains) /\ ~ENABLED Next

\* every goroutine of a batch of two is started and waits for a token of a
\* channel without capacity
C19_Witness ==
    /\ concurrency = 0
    /\ Len(domains) = 2
    /\ spawned = 2
    /\ \A i \in Tasks : task[i].pc = "acquire"
    /\ ~ENABLED Next

====
